---- MODULE Spec2Model ----
(***************************************************************************)
(* Verification model of the Browser Assistant action pipeline:            *)
(* IntentParser, ActionRegistry, the actions' run workflows, the           *)
(* ConfirmationOverlay and the side panel's request handling.              *)
(*                                                                         *)
(* Text is modelled as a sequence of lower-case words (tokens) separated   *)
(* by single blanks.  No word of Vocab contains another word of Vocab or   *)
(* a keyword of looksLikeActionCommand as a proper substring, so a regex   *)
(* fragment such as \breply\s+ or a call includes('reply') is decided by   *)
(* token equality.  Confidences are percentages (0.9 is 90).               *)
(***************************************************************************)
EXTENDS Integers, Sequences, FiniteSets, TLC

\* ------------------------------------------------------------------ bounds
MaxTokens == 3
MaxCommands == 2

\* --------------------------------------------------------------- vocabulary
Addr == "a@b"
Vocab == {"reply", "email", "forward", "this", "to", "saying", "write",
          "doc", "make", "hello", Addr}
Addresses == {Addr}

TokenSeqs(n) == UNION {[1..k -> Vocab] : k \in 0..n}

None == "none"
NoText == <<>>

Has(s, i, w) == i \in 1..Len(s) /\ s[i] = w
HasIn(s, i, W) == i \in 1..Len(s) /\ s[i] \in W

RECURSIVE SkipOpt(_, _, _)
\* positions reachable from the positions P after the optional groups
\* (w\s+)? of opts, taken in order
SkipOpt(s, P, opts) ==
  IF opts = <<>> THEN P
  ELSE SkipOpt(s, P \cup {p + 1 : p \in {q \in P : Has(s, q, Head(opts))}}, Tail(opts))

\* /\bVERB\s+(o1\s+)?(o2\s+)?NOUN/i for a verb of verbs, anywhere in the input
VerbOptNoun(s, verbs, opts, noun) ==
  \E i \in 1..Len(s) :
    /\ s[i] \in verbs
    /\ \E p \in SkipOpt(s, {i + 1}, opts) : Has(s, p, noun)

\* ------------------------------------------------------- IntentParser.patterns
AnArticle == {"a", "an"}

ReplyPatterns(s) ==
  \/ VerbOptNoun(s, {"reply"}, <<"to", "this">>, "email")
  \/ VerbOptNoun(s, {"respond"}, <<"to", "this">>, "email")
  \/ VerbOptNoun(s, {"answer"}, <<"this">>, "email")
  \/ VerbOptNoun(s, {"write"}, <<"a">>, "reply")

ComposePatterns(s) ==
  \/ \E art \in AnArticle : VerbOptNoun(s, {"compose"}, <<art>>, "email")
  \/ \E art \in AnArticle : VerbOptNoun(s, {"write"}, <<art>>, "email")
  \/ \E art \in AnArticle : VerbOptNoun(s, {"draft"}, <<art>>, "email")
  \/ \E art \in AnArticle : VerbOptNoun(s, {"send"}, <<art>>, "email")
  \/ \E i \in 1..Len(s) : s[i] = "email" /\ i < Len(s)

ForwardPatterns(s) ==
  \/ Has(s, 1, "forward") /\ \E p \in SkipOpt(s, {2}, <<"this">>) : Has(s, p, "email")
  \/ Has(s, 1, "fwd") /\ \E p \in SkipOpt(s, {2}, <<"this">>) : Has(s, p, "email")

WriteVerbs == {"write", "add", "insert", "put", "create", "generate", "make"}
WriteNouns == {"document", "doc", "sheet"}

WritePatterns(s) ==
  \/ \E i, j \in 1..Len(s) : i < j /\ s[i] \in WriteVerbs /\ s[j] \in WriteNouns
  \/ \E i, j \in 1..Len(s) : i < j /\ s[i] \in WriteNouns /\ s[j] \in WriteVerbs
  \/ \E i \in 1..Len(s) :
       s[i] = "in" /\ \E p \in SkipOpt(s, {i + 1}, <<"the">>) : HasIn(s, p, WriteNouns)

PatternTable == <<"reply", "compose", "forward", "write">>

patterns(action, s) ==
  CASE action = "reply" -> ReplyPatterns(s)
    [] action = "compose" -> ComposePatterns(s)
    [] action = "forward" -> ForwardPatterns(s)
    [] action = "write" -> WritePatterns(s)

Min(S) == CHOOSE x \in S : \A y \in S : x <= y

\* (variant: the last table entry one of whose regexes matches)
matchPatternsLast(s) ==
  LET hits == {k \in 1..Len(PatternTable) : patterns(PatternTable[k], s)}
  IN IF hits = {} THEN None ELSE PatternTable[CHOOSE x \in hits : \A y \in hits : x >= y]

\* the action of the first table entry one of whose regexes matches, or None
matchPatterns(s) ==
  LET hits == {k \in 1..Len(PatternTable) : patterns(PatternTable[k], s)}
  IN IF hits = {} THEN None ELSE PatternTable[Min(hits)]

\* ------------------------------------------------- IntentParser.extractParameters
NoParams == [to |-> NoText, subject |-> NoText, message |-> NoText]

\* capture of /(?:w1|w2)\s+(.+)/ : the rest of the input after the first such word
RestAfter(s, words) ==
  LET at == {i \in 1..Len(s) : s[i] \in words /\ i < Len(s)}
  IN IF at = {} THEN NoText ELSE SubSeq(s, Min(at) + 1, Len(s))

\* capture of /to\s+([^\s]+@[^\s]+)/
ToAddress(s) ==
  LET at == {i \in 1..Len(s) : s[i] = "to" /\ HasIn(s, i + 1, Addresses)}
  IN IF at = {} THEN NoText ELSE <<s[Min(at) + 1]>>

extractParameters(s, action) ==
  CASE action = "compose" ->
         [to |-> ToAddress(s), subject |-> RestAfter(s, {"about"}),
          message |-> RestAfter(s, {"saying"})]
    [] action = "reply" ->
         [to |-> NoText, subject |-> NoText, message |-> RestAfter(s, {"saying", "that"})]
    [] action = "forward" ->
         [to |-> ToAddress(s), subject |-> NoText, message |-> NoText]
    [] OTHER -> NoParams

\* ---------------------------------------------- IntentParser.looksLikeActionCommand
actionKeywords ==
  {"reply", "respond", "compose", "draft", "send", "forward", "fwd", "email",
   "message", "write", "type", "fill", "enter", "input", "click", "press",
   "tap", "select", "open", "close", "show", "hide", "scroll", "navigate",
   "submit", "save", "delete", "remove", "add", "create", "insert", "search",
   "find"}
actionKeyPhrases == {<<"go", "to">>, <<"look", "for">>}

looksLikeActionCommand(s) ==
  \/ \E i \in 1..Len(s) : s[i] \in actionKeywords
  \/ \E i \in 1..Len(s) : \E ph \in actionKeyPhrases :
       s[i] = ph[1] /\ Has(s, i + 1, ph[2])

\* ------------------------------------------------------------ IntentParser.parse
Intent(action, confidence, parameters, method) ==
  [action |-> action, confidence |-> confidence, parameters |-> parameters,
   method |-> method]

NeedsLLM == Intent("pending", 0, NoParams, "llm-pending")

\* (variant: without the keyword fallback)
parseLocalAsking(s) ==
  IF matchPatterns(s) # None
  THEN Intent(matchPatterns(s), 90, extractParameters(s, matchPatterns(s)), "pattern")
  ELSE NeedsLLM

\* the part of parse before the model is asked: the pattern intent, the
\* keyword-fallback intent, or NeedsLLM when parseWithLLM is entered
parseLocal(s) ==
  IF matchPatterns(s) # None
  THEN Intent(matchPatterns(s), 90, extractParameters(s, matchPatterns(s)), "pattern")
  ELSE IF looksLikeActionCommand(s)
       THEN Intent("generic", 70, NoParams, "keyword-fallback")
       ELSE NeedsLLM

\* outcomes of the chat message of parseWithLLM
LLMIntentActions == {"reply", "compose", "forward", "summarize", "unknown"}
LLMConfidences == {30, 90}
ChatFailures == {"rejected", "no-success", "no-json", "bad-json"}
LLMIntentReplies ==
  [kind : ChatFailures] \cup
  [kind : {"json"}, action : LLMIntentActions, confidence : LLMConfidences]

\* (variant: a response that is not JSON is not caught)
parseWithLLMUncaught(reply) ==
  IF reply.kind = "json"
  THEN Intent(reply.action, reply.confidence, NoParams, "llm")
  ELSE IF reply.kind \in {"no-json", "bad-json"}
       THEN Intent("generic", 70, NoParams, "llm")
       ELSE Intent("unknown", 0, NoParams, "failed")

parseWithLLM(reply) ==
  IF reply.kind = "json"
  THEN Intent(reply.action, reply.confidence, NoParams, "llm")
  ELSE Intent("unknown", 0, NoParams, "failed")


\* ----------------------------------------------------------------- page text
\* A text is a non-empty sequence of lines; a line is its header ("To:",
\* "Subject:" or none) and the words of the trimmed rest.  The empty string
\* is <<Blank>>.
Line(h, v) == [h |-> h, v |-> v]
Blank == Line("", NoText)
EmptyText == <<Blank>>
NullContent == <<Line("null", NoText)>>
GenText == <<Line("", <<"generated">>)>>
EditedText == <<Line("", <<"edited">>)>>

\* ------------------------------------------------------------ ActionResult
Pending == [state |-> "pending", success |-> FALSE, message |-> "", lines |-> <<>>]
ActionResultSuccess(message, lines) ==
  [state |-> "resolved", success |-> TRUE, message |-> message, lines |-> lines]
ActionResultError(message) ==
  [state |-> "resolved", success |-> FALSE, message |-> message, lines |-> <<>>]
Rejected(message) ==
  [state |-> "rejected", success |-> FALSE, message |-> message, lines |-> <<>>]

\* ------------------------------------------------------------------- state
\* a hostname is the sequence of its labels; includes is decided on labels
MaxLabels == 6
Labels == {"mail", "docs", "google", "com", "example"}
HostNames == UNION {[1..n -> Labels] : n \in 1..MaxLabels}
MailHost == <<"mail", "google", "com">>
DocsHost == <<"docs", "google", "com">>
Hosts == {MailHost, DocsHost, <<"example", "com">>}
\* String.prototype.includes
Includes(h, part) ==
  \E i \in 0..(Len(h) - Len(part)) : SubSeq(h, i + 1, i + Len(part)) = part
IncludesMail(h) == Includes(h, MailHost)
IncludesDocs(h) == Includes(h, DocsHost)

VARIABLES
  host,          \* window.location.hostname of the tab
  inEmailView,   \* GmailProvider.isInEmailView() of the page
  registry,      \* ActionRegistry: initialized, providers, actions
  nCommands,     \* requests the content script has answered
  pc,            \* position of the request being handled
  cmd,           \* userInput of handleCommand
  intent,        \* result of IntentParser.parse
  runs,          \* run invocations of the request: <<[key, text, parameters]>>
  chatMsgs,      \* 'chat' messages sent to the background for the request
  replies,       \* how each of these messages was answered
  content,       \* content generated for the run (text, email or plan)
  overlay,       \* ConfirmationOverlay: DOM element, textarea, key listener
  promise,       \* promise returned by ConfirmationOverlay.show
  confirmation,  \* value the promise resolved with, and the UI event behind it
  execArgs,      \* arguments of the execute call: content and options
  dom,           \* mutating steps invoked on the page for the request
  plan,          \* plan returned by FallbackProvider.planAction
  stepIdx,       \* executeAction: index of the next plan step
  results,       \* executeAction: result lines so far
  result         \* what the request resolved with

cvars == <<host, inEmailView, registry, nCommands, pc, cmd, intent, runs,
           chatMsgs, replies, content, overlay, promise, confirmation, execArgs, dom,
           plan, stepIdx, results, result>>

\* the side panel
VARIABLES
  chatDisabled,  \* promptField.disabled and the form button's disabled
  buttons,       \* quick-action buttons created so far: <<[key, disabled, attached]>>
  queries,       \* updateQuickActions calls awaiting their response: retryCount of each
  subs,          \* form.onsubmit invocations: <<[prompt, phase, routed, chats]>>
  clicks,        \* buttons whose click handler awaits its execute_action response
  nTabEvents     \* tab activations and URL changes so far

pvars == <<chatDisabled, buttons, queries, subs, clicks, nTabEvents>>

\* ComposeAction.run
VARIABLES
  emailData      \* what generateContent returned: [to, subject, body]

evars == <<emailData>>

\* generateFullSummary
VARIABLES
  fullText,        \* its argument: the characters of the page text
  chunkSize,       \* parseInt(config.chunkSize) || 50000
  chunks,          \* chunkText(fullText, chunkSize)
  chunkIdx,        \* index of the chunk being summarized (1-based)
  chunkSummaries,  \* summaries and error notes collected so far
  calls,           \* BackgroundAPI.chat calls made: <<[kind, text]>>
  sumPc,           \* position in generateFullSummary
  summary          \* what it returned

svars == <<fullText, chunkSize, chunks, chunkIdx, chunkSummaries, calls, sumPc, summary>>

\* the background worker, its model registry and the messages it serves
VARIABLES
  models,              \* ModelRegistry.models: ids of the registered providers
  modelRegistryReady,  \* background.js: set once the stored configuration is loaded
  currentModelId,      \* ModelRegistry.currentModelId
  currentConfig,       \* ModelRegistry.currentConfig: model id -> config
  store,               \* chrome.storage.local: [selectedModel, modelConfigs]
  writes,              \* chrome.storage.local.set calls: <<[key, cause, before]>>
  req,                 \* the runtime message the worker is serving
  bpc,                 \* position of its handler
  responses,           \* sendResponse calls made for req
  response,            \* the last payload passed to sendResponse
  retries,             \* get_available_actions: attempts left
  fetches,             \* provider chat calls made for req
  treq,                \* the message a tab's content script is serving
  tpc,                 \* position of the content script's handler
  tresponses,          \* sendResponse calls made for treq
  tresponse,           \* the last payload the content script passed
  ppc,                 \* the side panel: position in populateModelDropdown
  listRetries,         \* populateModelDropdown: retries left
  nRequests            \* requests the user has caused

regvars == <<models, modelRegistryReady, currentModelId, currentConfig, store, writes>>
msgvars == <<req, bpc, responses, response, retries, fetches>>
tabvars == <<treq, tpc, tresponses, tresponse>>
mvars == <<ppc, listRetries, nRequests>>
bvars == <<regvars, msgvars, tabvars, mvars>>

\* the side panel waiting for the background worker (DOMContentLoaded)
VARIABLES
  loadPc,        \* position of the DOMContentLoaded handler
  now,           \* poll periods elapsed since the handler set its timers
  pollInterval,  \* the setInterval timer: "none", "set" or "cleared"
  stopTimer,     \* the 30 s setTimeout is pending
  due,           \* timers whose time has come and that have not run yet
  polling,       \* check_ready polls awaiting their answer
  sent,          \* polls sent since the handler set its timers
  answer,        \* what the last poll was answered
  loads          \* times the panel page has been loaded

qvars == <<loadPc, now, pollInterval, stopTimer, due, polling, sent, answer, loads>>

\* the service worker's start-up
VARIABLES
  pendingGet,    \* what the chrome.storage.local.get issued at start-up will deliver
  nRestarts      \* times the idle worker was stopped and started again

gvars == <<pendingGet, nRestarts>>

\* one ConfirmationOverlay object and the document it shows in
VARIABLES
  thisOverlay,      \* this.overlay: the element created last, 0 for null
  thisResolve,      \* this.resolve: the promise it resolves, 0 for null
  docBody,          \* the overlay elements attached to document.body
  keydownHandlers,  \* the elements whose Escape listener is on the document
  shown,            \* the options of each call of show, in call order
  promises          \* the promise each call returned: pending, or its value

ovars == <<thisOverlay, thisResolve, docBody, keydownHandlers, shown, promises>>

\* the get_available_actions requests of the side panel, over several tabs
VARIABLES
  reported       \* for each entry of queries: what the background has obtained

tvars == <<reported>>

zvars == <<qvars, gvars, ovars, tvars>>
yvars == <<svars, bvars, zvars>>
xvars == <<evars, yvars>>
vars == <<cvars, pvars, xvars>>

\* ------------------------------------------------------------ ActionRegistry
Set(m, k, v) == (k :> v) @@ m
Instance(class, id) == [class |-> class, id |-> id]

NewRegistry ==
  [initialized |-> FALSE, providers |-> <<>>, actions |-> <<>>, constructed |-> 0]

registerGmailProvider(r, h) ==
  LET c == r.constructed IN
  IF IncludesMail(h)
  THEN [r EXCEPT
         !.providers = Set(@, "gmail", Instance("GmailProvider", c + 1)),
         !.actions = Set(Set(Set(@, "reply", Instance("ReplyAction", c + 2)),
                                 "compose", Instance("ComposeAction", c + 3)),
                                 "summarize", Instance("SummarizeThreadAction", c + 4)),
         !.constructed = c + 4]
  ELSE [r EXCEPT !.constructed = c + 1]

registerGoogleDocsProvider(r, h) ==
  LET c == r.constructed IN
  IF IncludesDocs(h)
  THEN [r EXCEPT
         !.providers = Set(@, "googledocs", Instance("GoogleDocsProvider", c + 1)),
         !.actions = Set(Set(@, "write", Instance("WriteTextAction", c + 2)),
                             "summarize_doc", Instance("SummarizeAction", c + 3)),
         !.constructed = c + 3]
  ELSE [r EXCEPT !.constructed = c + 1]

registerFallbackProvider(r) ==
  LET c == r.constructed
      withGeneric ==
        [r EXCEPT
          !.providers = Set(@, "fallback", Instance("FallbackProvider", c + 1)),
          !.actions = Set(@, "generic", Instance("GenericAction", c + 2)),
          !.constructed = c + 2]
  IN IF "summarize_doc" \notin DOMAIN withGeneric.actions
        /\ "summarize" \notin DOMAIN withGeneric.actions
     THEN [withGeneric EXCEPT
            !.actions = Set(@, "summarize_page", Instance("SummarizePageAction", c + 3)),
            !.constructed = c + 3]
     ELSE withGeneric

initializeAlways(r, h) ==
  LET r1 == IF IncludesMail(h) THEN registerGmailProvider(r, h) ELSE r
      r2 == IF IncludesDocs(h) THEN registerGoogleDocsProvider(r1, h) ELSE r1
      r3 == registerFallbackProvider(r2)
  IN [r3 EXCEPT !.initialized = TRUE]

\* (variant: no initialized guard)
initializeUnguarded(r, h) == initializeAlways(r, h)

initialize(r, h) ==
  IF r.initialized THEN r ELSE initializeAlways(r, h)


\* ------------------------------------------------------------ canExecute
ClassOf(key) == registry.actions[key].class

\* canExecute of an action of the class, on the current page
canExecuteOf(class) ==
  CASE class = "ReplyAction" -> IncludesMail(host) /\ inEmailView
    [] class = "ComposeAction" -> IncludesMail(host)
    [] class = "SummarizeThreadAction" -> IncludesMail(host)
    [] class = "WriteTextAction" -> IncludesDocs(host)
    [] class = "SummarizeAction" -> IncludesDocs(host)
    [] class = "GenericAction" -> TRUE
    [] class = "SummarizePageAction" -> TRUE

canExecute(key) == canExecuteOf(ClassOf(key))

showAsQuickAction(class) ==
  class \in {"ReplyAction", "SummarizeThreadAction", "SummarizeAction",
             "SummarizePageAction"}

ShowsOverlay(class) ==
  class \in {"ReplyAction", "ComposeAction", "WriteTextAction", "GenericAction"}

\* ------------------------------------------------------------ ComposeAction
EmailData(to, subject, body) == [to |-> to, subject |-> subject, body |-> body]
NotSpecified == <<"(not", "specified)">>
NoSubject == <<"(no", "subject)">>

\* the preview text built by ComposeAction.run
previewContent(e) ==
  <<Line("To:", IF e.to = NoText THEN NotSpecified ELSE e.to),
    Line("Subject:", IF e.subject = NoText THEN NoSubject ELSE e.subject),
    Blank>> \o e.body

IsHeader(l) == l.h \in {"To:", "Subject:"}
Max(S) == CHOOSE x \in S : \A y \in S : x >= y
\* String.replace(placeholder, ''): the first occurrence is removed
Replace(v, placeholder) ==
  LET at == {i \in 0..(Len(v) - Len(placeholder)) :
               SubSeq(v, i + 1, i + Len(placeholder)) = placeholder}
  IN IF at = {} THEN v
     ELSE LET i == Min(at)
          IN SubSeq(v, 1, i) \o SubSeq(v, i + Len(placeholder) + 1, Len(v))

RECURSIVE TrimFront(_)
TrimFront(t) == IF t # <<>> /\ Head(t) = Blank THEN TrimFront(Tail(t)) ELSE t
RECURSIVE TrimBack(_)
TrimBack(t) ==
  IF t # <<>> /\ t[Len(t)] = Blank THEN TrimBack(SubSeq(t, 1, Len(t) - 1)) ELSE t
\* String.trim of a text: no blank line at either end; '' is <<Blank>>
Trim(t) == LET u == TrimBack(TrimFront(t)) IN IF u = <<>> THEN EmptyText ELSE u

parseEditedContent(t) ==
  LET tos == {i \in 1..Len(t) : t[i].h = "To:"}
      subjects == {i \in 1..Len(t) : t[i].h = "Subject:"}
      headers == tos \cup subjects
      bodyStartIndex == IF headers = {} THEN 0 ELSE Max(headers)
  IN EmailData(IF tos = {} THEN NoText ELSE Replace(t[Max(tos)].v, NotSpecified),
               IF subjects = {} THEN NoText ELSE Replace(t[Max(subjects)].v, NoSubject),
               Trim(SubSeq(t, bodyStartIndex + 1, Len(t))))

\* ------------------------------------------------------------ chat replies
TextReplies == [kind : {"rejected", "no-success", "text"}]
GenSubject == <<"update">>
GenBody == <<Line("", <<"body">>)>>
ComposeReplies ==
  [kind : ChatFailures] \cup
  [kind : {"json"}, to : {NoText, <<Addr>>}, subject : {NoText, GenSubject},
   body : {GenBody}]

\* email bodies of the model's answer: lines that are blank, plain, or begin
\* like a header of the preview
MaxBodyLines == 3
BodyLines ==
  {Blank, Line("", <<"body">>), Line("To:", <<"list">>), Line("Subject:", <<"list">>)}
Bodies == UNION {[1..n -> BodyLines] : n \in 1..MaxBodyLines}
EmailReplies ==
  [kind : {"json"}, to : {NoText, <<Addr>>, NotSpecified}, subject : {NoText, GenSubject},
   body : Bodies]

NoEmail == EmailData(NoText, NoText, EmptyText)
\* generateContent: "Merge with context (prefer context values if provided)"
mergeWithContext(context, reply) ==
  EmailData(IF context.to # NoText THEN context.to ELSE reply.to,
            IF context.subject # NoText THEN context.subject ELSE reply.subject,
            reply.body)

MaxSteps == 2
StepKinds == {"click", "fill", "navigate", "hover"}
StepSeqs == UNION {[1..k -> StepKinds] : k \in 0..MaxSteps}
Plan(feasible, steps, warnings) ==
  [feasible |-> feasible, steps |-> steps, warnings |-> warnings]
NoPlan == Plan(FALSE, <<>>, "none")
PlanReplies ==
  [kind : ChatFailures] \cup
  {[kind |-> "json", plan |-> Plan(FALSE, <<>>, "list")],
   [kind |-> "json", plan |-> Plan(TRUE, <<"click">>, "missing")]} \cup
  {[kind |-> "json", plan |-> Plan(TRUE, st, "list")] : st \in StepSeqs}

\* ------------------------------------------------------- ConfirmationOverlay
NoOverlay == [attached |-> FALSE, editable |-> FALSE, text |-> EmptyText, keydown |-> FALSE]
NoConfirmation == [approved |-> FALSE, content |-> NullContent, cause |-> "none"]
\* show: createOverlay, attachEventListeners, appendChild
show(editable, text) ==
  [attached |-> TRUE, editable |-> editable, text |-> text, keydown |-> TRUE]
\* (variant: the key listener stays on the document)
closeKeepsListener(o) ==
  IF o.attached THEN [o EXCEPT !.attached = FALSE] ELSE o

\* close: remove the key listener and the element
close(o) ==
  IF o.attached THEN [o EXCEPT !.attached = FALSE, !.keydown = FALSE] ELSE o
approve(o) ==
  [approved |-> TRUE, content |-> IF o.editable THEN o.text ELSE NullContent,
   cause |-> "approve-button"]
cancel(cause) == [approved |-> FALSE, content |-> NullContent, cause |-> cause]

Dom(op, arg) == [op |-> op, arg |-> arg]
Options == [autoSend : BOOLEAN]
NoOptions == [autoSend |-> FALSE]
Args(text, options) == [content |-> text, options |-> options]
NoArgs == Args(EmptyText, NoOptions)


\* ------------------------------------------------------------------- Init
\* the commands typed in the side panel, and the empty command
Commands ==
  {<<"reply", "saying", "hello">>,
   <<"reply", "to", "this", "email">>,
   <<"write", "email", "to", Addr>>,
   <<"forward", "this", "email">>,
   <<"make", "doc">>,
   <<"hello">>,
   <<>>}
NoIntent == Intent("none", 0, NoParams, "none")

ContentInitOn(hosts) ==
  /\ host \in hosts
  /\ inEmailView \in BOOLEAN
  /\ (inEmailView => IncludesMail(host))
  /\ registry = NewRegistry
  /\ nCommands = 0
  /\ pc = "idle"
  /\ cmd = NoText
  /\ intent = NoIntent
  /\ runs = <<>>
  /\ chatMsgs = <<>>
  /\ replies = <<>>
  /\ content = EmptyText
  /\ overlay = NoOverlay
  /\ promise = "none"
  /\ confirmation = NoConfirmation
  /\ execArgs = NoArgs
  /\ dom = <<>>
  /\ plan = NoPlan
  /\ stepIdx = 0
  /\ results = <<>>
  /\ result = Pending

ContentInit == ContentInitOn(Hosts)

\* the state of a request that has just been received
NewRequest ==
  /\ replies' = <<>>
  /\ content' = EmptyText
  /\ overlay' = NoOverlay
  /\ promise' = "none"
  /\ confirmation' = NoConfirmation
  /\ execArgs' = NoArgs
  /\ dom' = <<>>
  /\ plan' = NoPlan
  /\ stepIdx' = 0
  /\ results' = <<>>
  /\ result' = Pending

Run(key, text, parameters) == [key |-> key, text |-> text, parameters |-> parameters]
CurrentRun == runs[Len(runs)]
CurrentClass == ClassOf(CurrentRun.key)

\* ------------------------------------------------ ActionRegistry.handleCommand
\* initialize, then IntentParser.parse up to its result or its chat message
HandleCommand(c) ==
  /\ pc = "idle"
  /\ nCommands < MaxCommands
  /\ registry' = initialize(registry, host)
  /\ cmd' = c
  /\ intent' = parseLocal(c)
  /\ IF parseLocal(c) = NeedsLLM
     THEN pc' = "parse" /\ chatMsgs' = <<"intent">>
     ELSE pc' = "dispatch" /\ chatMsgs' = <<>>
  /\ runs' = <<>>
  /\ NewRequest
  /\ emailData' = NoEmail
  /\ UNCHANGED <<pvars, yvars, host, inEmailView, nCommands>>

\* parseWithLLM: the answer to the chat message, or its failure
ParseWithLLM(reply) ==
  /\ pc = "parse"
  /\ intent' = parseWithLLM(reply)
  /\ replies' = Append(replies, reply.kind)
  /\ pc' = "dispatch"
  /\ UNCHANGED <<pvars, xvars, host, inEmailView, registry, nCommands, cmd, runs, chatMsgs,
                 content, overlay, promise, confirmation, execArgs, dom, plan, stepIdx,
                 results, result>>

\* (variant: the error is thrown on)
handleCommandRethrow(message) == Rejected(message)

handleCommandCatch(message) == ActionResultError(message)

\* (variant: canExecute is not consulted)
dispatchUnchecked(i, text) ==
  LET found == i.action \in DOMAIN registry.actions IN
  IF ~found \/ i.action = "unknown" \/ i.confidence < 50
  THEN IF "generic" \in DOMAIN registry.actions
       THEN Run("generic", text, NoParams) ELSE Run(None, text, NoParams)
  ELSE Run(i.action, text, i.parameters)

\* the run that handleCommand invokes for the parsed intent, or None
dispatch(i, text) ==
  LET found == i.action \in DOMAIN registry.actions IN
  IF ~found \/ i.action = "unknown" \/ i.confidence < 50
  THEN IF "generic" \in DOMAIN registry.actions
       THEN Run("generic", text, NoParams) ELSE Run(None, text, NoParams)
  ELSE IF ~canExecute(i.action)
       THEN IF "generic" \in DOMAIN registry.actions
            THEN Run("generic", text, NoParams) ELSE Run(None, text, NoParams)
       ELSE Run(i.action, text, i.parameters)

Dispatch ==
  /\ pc = "dispatch"
  /\ LET r == dispatch(intent, cmd) IN
       IF r.key = None
       THEN /\ result' = ActionResultError(
                  IF \/ intent.action \notin DOMAIN registry.actions
                     \/ intent.action = "unknown"
                     \/ intent.confidence < 50
                  THEN "Could not understand the command"
                  ELSE "Cannot execute in the current context")
            /\ pc' = "done"
            /\ runs' = runs
       ELSE /\ runs' = Append(runs, r)
            /\ pc' = "run"
            /\ result' = result
  /\ UNCHANGED <<pvars, xvars, host, inEmailView, registry, nCommands, cmd, intent, chatMsgs, replies,
                 content, overlay, promise, confirmation, execArgs, dom, plan, stepIdx, results>>

\* (variant: the quick-action flag is not looked at)
getAvailableActionsUnflagged(r) ==
  {k \in DOMAIN r.actions : canExecuteOf(r.actions[k].class)}

\* the keys of the actions getAvailableActions keeps
getAvailableActions(r) ==
  {k \in DOMAIN r.actions :
     canExecuteOf(r.actions[k].class) /\ showAsQuickAction(r.actions[k].class)}

\* content.js execute_action with an actionKey: a quick-action button
ExecuteActionKey(key) ==
  /\ pc = "idle"
  /\ nCommands < MaxCommands
  /\ key \in getAvailableActions(initialize(registry, host))
  /\ registry' = initialize(registry, host)
  /\ cmd' = NoText
  /\ intent' = NoIntent
  /\ chatMsgs' = <<>>
  /\ NewRequest
  /\ runs' = <<Run(key, NoText, NoParams)>>
  /\ pc' = "run"
  /\ emailData' = NoEmail
  /\ UNCHANGED <<pvars, yvars, host, inEmailView, nCommands>>

\* ------------------------------------------------------------ the actions' run
runCatch(message) == ActionResultError(message)

Return(r) == result' = r /\ pc' = "done"
Chat(purpose) == chatMsgs' = Append(chatMsgs, purpose) /\ pc' = "generate"

\* run up to its chat message: canExecute, extractContext
RunStart ==
  /\ pc = "run"
  /\ \E contextOk \in BOOLEAN :
       CASE CurrentClass = "ReplyAction" ->
              IF ~canExecute(CurrentRun.key)
              THEN Return(ActionResultError("Cannot reply - not viewing an email"))
                   /\ chatMsgs' = chatMsgs
              ELSE IF ~contextOk
                   THEN Return(ActionResultError("Could not extract email content"))
                        /\ chatMsgs' = chatMsgs
                   ELSE Chat("reply") /\ result' = result
         [] CurrentClass = "ComposeAction" ->
              IF ~canExecute(CurrentRun.key)
              THEN Return(ActionResultError("Cannot compose - not in Gmail"))
                   /\ chatMsgs' = chatMsgs
              ELSE contextOk /\ Chat("compose") /\ result' = result
         [] CurrentClass = "WriteTextAction" ->
              IF ~contextOk
              THEN Return(ActionResultError("Could not find Google Docs/Sheets editor"))
                   /\ chatMsgs' = chatMsgs
              ELSE Chat("write") /\ result' = result
         [] CurrentClass = "GenericAction" ->
              contextOk /\ Chat("plan") /\ result' = result
         [] CurrentClass = "SummarizeThreadAction" ->
              IF ~inEmailView
              THEN contextOk /\ Return(ActionResultError("Please open an email thread"))
                   /\ chatMsgs' = chatMsgs
              ELSE contextOk /\ Chat("summarize") /\ result' = result
         [] OTHER ->
              IF ~contextOk
              THEN Return(ActionResultError("Nothing to summarize")) /\ chatMsgs' = chatMsgs
              ELSE Chat("summarize") /\ result' = result
  /\ UNCHANGED <<pvars, xvars, host, inEmailView, registry, nCommands, cmd, intent, runs, replies,
                 content, overlay, promise, confirmation, execArgs, dom, plan, stepIdx,
                 results>>

Show(editable, text) ==
  /\ overlay' = show(editable, text)
  /\ promise' = "pending"
  /\ pc' = "confirm"
  /\ result' = result

NoShow == overlay' = overlay /\ promise' = promise

\* the answer to the run's chat message, up to ConfirmationOverlay.show
Generate(reply) ==
  /\ pc = "generate"
  /\ replies' = Append(replies, reply.kind)
  /\ CASE CurrentClass \in {"ReplyAction", "WriteTextAction"} ->
            /\ reply \in TextReplies
            /\ plan' = plan
            /\ IF reply.kind = "text"
               THEN content' = GenText /\ Show(TRUE, GenText)
               ELSE content' = content /\ NoShow
                    /\ Return(runCatch("Could not generate content"))
       [] CurrentClass = "ComposeAction" ->
            /\ reply \in ComposeReplies \cup EmailReplies
            /\ plan' = plan
            /\ IF reply.kind = "json"
               THEN LET generated == mergeWithContext(CurrentRun.parameters, reply)
                    IN content' = previewContent(generated)
                       /\ Show(TRUE, previewContent(generated))
               ELSE content' = content /\ NoShow
                    /\ Return(runCatch("Could not generate email"))
       [] CurrentClass = "GenericAction" ->
            /\ reply \in PlanReplies
            /\ content' = content
            /\ plan' = IF reply.kind = "json" THEN reply.plan
                       ELSE Plan(FALSE, <<>>, "list")
            /\ IF reply.kind # "json" \/ ~reply.plan.feasible
               THEN NoShow /\ Return(ActionResultError("Cannot execute"))
               ELSE IF reply.plan.warnings = "missing"
                    THEN NoShow /\ Return(runCatch("Action failed"))
                    ELSE Show(FALSE, EmptyText)
       [] OTHER ->
            /\ reply \in TextReplies
            /\ plan' = plan /\ NoShow
            /\ IF reply.kind = "text"
               THEN content' = GenText
                    /\ Return(ActionResultSuccess("Summary", <<>>))
               ELSE content' = content
                    /\ Return(runCatch("Failed to summarize"))
  /\ emailData' = IF CurrentClass = "ComposeAction" /\ reply.kind = "json"
                  THEN mergeWithContext(CurrentRun.parameters, reply)
                  ELSE emailData
  /\ UNCHANGED <<pvars, yvars, host, inEmailView, registry, nCommands, cmd, intent, runs,
                 chatMsgs, confirmation, execArgs, dom, stepIdx, results>>


\* ------------------------------------------------- after the confirmation
\* (variant: execute whatever the answer)
proceedsAlways(c) == TRUE

\* "If approved, execute": the branch of run on the overlay's answer
proceeds(c) == c.approved

CancelledMessage(class) ==
  CASE class = "ReplyAction" -> "Reply cancelled by user"
    [] class = "ComposeAction" -> "Compose cancelled by user"
    [] OTHER -> "Action cancelled by user"

\* what execute (or the clipboard write) is called with
finalContent(class, c, generated) ==
  CASE class = "WriteTextAction" ->
         IF c.content = EmptyText \/ c.content = NullContent THEN generated ELSE c.content
    [] OTHER -> c.content

MutatingStep(class) ==
  CASE class = "ReplyAction" -> "execute"
    [] class = "ComposeAction" -> "execute"
    [] class = "WriteTextAction" -> "clipboard.write"
    [] class = "GenericAction" -> "executeAction"

\* the rest of run once the promise of show has resolved with c
AfterConfirmation(c) ==
  IF proceeds(c)
  THEN /\ execArgs' = Args(IF CurrentClass = "ComposeAction"
                            THEN parseEditedContent(c.content)
                            ELSE finalContent(CurrentClass, c, content), NoOptions)
       /\ dom' = Append(dom, Dom("call", MutatingStep(CurrentClass)))
       /\ pc' = CASE CurrentClass \in {"ReplyAction", "ComposeAction"} -> "open"
                  [] CurrentClass = "WriteTextAction" -> "clipboard"
                  [] CurrentClass = "GenericAction" -> "steps"
       /\ stepIdx' = 1
       /\ result' = result
  ELSE /\ Return(ActionResultError(CancelledMessage(CurrentClass)))
       /\ UNCHANGED <<execArgs, dom, stepIdx>>

\* ---------------------------------------------------------------- the user
TextEdits(class) ==
  IF class = "ComposeAction"
  THEN {EmptyText,
        <<Line("To:", <<Addr>>), Line("Subject:", <<"edited">>), Blank,
          Line("", <<"edited">>)>>}
  ELSE {EmptyText, EditedText}

\* the user types in the overlay's text area
EditContent(t) ==
  /\ overlay.attached
  /\ overlay.editable
  /\ t \in TextEdits(CurrentClass)
  /\ t # overlay.text
  /\ overlay' = [overlay EXCEPT !.text = t]
  /\ UNCHANGED <<pvars, xvars, host, inEmailView, registry, nCommands, pc, cmd, intent, runs,
                 chatMsgs, replies, content, promise, confirmation, execArgs, dom, plan,
                 stepIdx, results, result>>

\* click on the approve button: ConfirmationOverlay.approve
ClickApprove ==
  /\ overlay.attached
  /\ overlay' = close(overlay)
  /\ IF promise = "pending"
     THEN /\ promise' = "resolved"
          /\ confirmation' = approve(overlay)
          /\ AfterConfirmation(approve(overlay))
     ELSE UNCHANGED <<promise, confirmation, execArgs, dom, stepIdx, pc, result>>
  /\ UNCHANGED <<pvars, xvars, host, inEmailView, registry, nCommands, cmd, intent, runs,
                 chatMsgs, replies, content, plan, results>>

CancelButtons == {"cancel-button", "close-button", "backdrop"}
CancelCauses == CancelButtons \cup {"escape"}

\* a click on Cancel, on the close button or on the backdrop, or the Escape
\* key: ConfirmationOverlay.cancel
Cancel(cause) ==
  /\ IF cause = "escape" THEN overlay.keydown ELSE overlay.attached
  /\ overlay' = close(overlay)
  /\ IF promise = "pending"
     THEN /\ promise' = "resolved"
          /\ confirmation' = cancel(cause)
          /\ AfterConfirmation(cancel(cause))
     ELSE UNCHANGED <<promise, confirmation, execArgs, dom, stepIdx, pc, result>>
  /\ UNCHANGED <<pvars, xvars, host, inEmailView, registry, nCommands, cmd, intent, runs,
                 chatMsgs, replies, content, plan, results>>


\* ------------------------------------------------- ReplyAction/ComposeAction.execute
OpenLabel(class) == IF class = "ReplyAction" THEN "Reply" ELSE "Compose"

\* (variant: the branch clicks the Send button)
autoSendClicks(options) == <<Dom("click", "Send")>>

\* "Step 3: Auto-send if requested": the page operations of that branch
autoSend(options) == <<>>

\* openReplyCompose / openCompose: click the button, wait for the compose area
ExecuteOpen ==
  /\ pc = "open"
  /\ \E found, appeared \in BOOLEAN :
       /\ (appeared => found)
       /\ dom' = IF found THEN Append(dom, Dom("click", OpenLabel(CurrentClass))) ELSE dom
       /\ IF appeared
          THEN pc' = "fill" /\ result' = result
          ELSE Return(ActionResultError("Failed to open compose area"))
  /\ UNCHANGED <<pvars, xvars, host, inEmailView, registry, nCommands, cmd, intent, runs, chatMsgs, replies,
                 content, overlay, promise, confirmation, execArgs, plan, stepIdx, results>>

\* fillReplyContent / fillComposeFields, then the autoSend branch
ExecuteFill ==
  /\ pc = "fill"
  /\ \E filled \in BOOLEAN :
       IF filled
       THEN /\ dom' = Append(dom, Dom("fill", execArgs.content))
                        \o (IF execArgs.options.autoSend THEN autoSend(execArgs.options)
                            ELSE <<>>)
            /\ Return(ActionResultSuccess("Drafted successfully! Review and send when ready.", <<>>))
       ELSE /\ dom' = dom
            /\ Return(ActionResultError("Failed to fill content"))
  /\ UNCHANGED <<pvars, xvars, host, inEmailView, registry, nCommands, cmd, intent, runs, chatMsgs, replies,
                 content, overlay, promise, confirmation, execArgs, plan, stepIdx, results>>

\* WriteTextAction.run: navigator.clipboard.write of the final text
ClipboardWrite ==
  /\ pc = "clipboard"
  /\ \E written \in BOOLEAN :
       IF written
       THEN /\ dom' = Append(dom, Dom("clipboard", execArgs.content))
            /\ Return(ActionResultSuccess("Content copied to clipboard!", <<>>))
       ELSE /\ dom' = dom
            /\ Return(ActionResultError("Could not copy to clipboard."))
  /\ UNCHANGED <<pvars, xvars, host, inEmailView, registry, nCommands, cmd, intent, runs, chatMsgs, replies,
                 content, overlay, promise, confirmation, execArgs, plan, stepIdx, results>>

\* ------------------------------------------------ FallbackProvider.executeAction
\* a line of results: its mark, the step described (0 when the line only
\* names the action) and the error message
ResultLine(mark, step, reason) == [mark |-> mark, step |-> step, reason |-> reason]

NotFoundClick == "Could not find element"
NotFoundInput == "Could not find input with label"
CopiedToClipboard == "Could not find input field, but content has been copied to clipboard"

\* executeFill when no element was found: the error it throws, the clipboard
\* copy done or failed; the Error thrown after the copy is thrown inside the
\* try and caught by its catch
executeFillNotFound(copied) == NotFoundInput

\* (variant: a failed step leaves the loop)
afterStepAbort(i, mark, n) == IF mark = "failed" THEN n + 1 ELSE i + 1

\* the index the loop goes on with after step i of n
afterStep(i, mark, n) == i + 1

\* one iteration of the loop of executeAction, or its return after the loop
ExecuteStep ==
  /\ pc = "steps"
  /\ IF stepIdx > Len(plan.steps)
     THEN /\ Return(ActionResultSuccess("steps", results))
          /\ UNCHANGED <<dom, stepIdx, results>>
     ELSE /\ \E found, copied \in BOOLEAN :
               LET step == plan.steps[stepIdx]
                   line ==
                     CASE step = "click" ->
                            IF found THEN ResultLine("ok", stepIdx, "")
                            ELSE ResultLine("failed", stepIdx, NotFoundClick)
                       [] step \in {"fill", "type"} ->
                            IF found THEN ResultLine("ok", stepIdx, "")
                            ELSE ResultLine("failed", stepIdx, executeFillNotFound(copied))
                       [] step = "navigate" -> ResultLine("ok", stepIdx, "")
                       [] OTHER -> ResultLine("unknown", 0, step)
               IN /\ CASE step = "click" ->
                            /\ ~copied
                            /\ dom' = IF found THEN Append(dom, Dom("click", stepIdx)) ELSE dom
                       [] step \in {"fill", "type"} ->
                            /\ (found => ~copied)
                            /\ dom' = IF found THEN Append(dom, Dom("fill", stepIdx))
                                      ELSE IF copied
                                           THEN Append(dom, Dom("clipboard", stepIdx))
                                           ELSE dom
                       [] step = "navigate" ->
                            /\ found /\ ~copied
                            /\ dom' = Append(dom, Dom("navigate", stepIdx))
                       [] OTHER ->
                            /\ found /\ ~copied
                            /\ dom' = dom
                  /\ results' = Append(results, line)
                  /\ stepIdx' = afterStep(stepIdx, line.mark, Len(plan.steps))
          /\ UNCHANGED <<pc, result>>
  /\ UNCHANGED <<pvars, xvars, host, inEmailView, registry, nCommands, cmd, intent, runs, chatMsgs, replies,
                 content, overlay, promise, confirmation, execArgs, plan>>

\* content.js: sendResponse with the result
Finish ==
  /\ pc = "done"
  /\ pc' = "idle"
  /\ nCommands' = nCommands + 1
  /\ UNCHANGED <<pvars, xvars, host, inEmailView, registry, cmd, intent, runs, chatMsgs, replies, content,
                 overlay, promise, confirmation, execArgs, dom, plan, stepIdx,
                 results, result>>

\* ------------------------------------------------------------ failures
\* canExecute of the looked-up action throws inside handleCommand's try
CanExecuteThrows ==
  /\ pc = "dispatch"
  /\ intent.action \in DOMAIN registry.actions
  /\ result' = handleCommandCatch("Failed to execute command")
  /\ pc' = "done"
  /\ UNCHANGED <<pvars, xvars, host, inEmailView, registry, nCommands, cmd, intent, runs, chatMsgs,
                 replies, content, overlay, promise, confirmation, execArgs, dom, plan,
                 stepIdx, results>>

\* a provider or overlay call throws inside the try of run or execute
RunThrows ==
  /\ pc \in {"run", "generate", "open", "fill", "clipboard"}
  /\ Return(runCatch("Action failed"))
  /\ UNCHANGED <<pvars, xvars, host, inEmailView, registry, nCommands, cmd, intent, runs, chatMsgs,
                 replies, content, overlay, promise, confirmation, execArgs, dom, plan,
                 stepIdx, results>>

\* ------------------------------------------------------------ the side panel
MaxTabEvents == 2
MaxSubmits == 2

KeyOrder == <<"reply", "summarize", "summarize_doc", "summarize_page">>
Button(key) == [key |-> key, disabled |-> FALSE, attached |-> TRUE]
ButtonsFor(keys) ==
  LET sel == SelectSeq(KeyOrder, LAMBDA k : k \in keys)
  IN [i \in 1..Len(sel) |-> Button(sel[i])]
\* quickActionsContainer.innerHTML = ''
Detach(bs) == [i \in 1..Len(bs) |-> [bs[i] EXCEPT !.attached = FALSE]]
RemoveAt(q, i) == SubSeq(q, 1, i - 1) \o SubSeq(q, i + 1, Len(q))

\* the background's answer to get_available_actions: the content script's
\* list, or no action when the content script does not answer
AvailableActions(ready) ==
  IF ready THEN getAvailableActions(initialize(NewRegistry, host)) ELSE {}

PanelPrompts == {<<"hello">>, <<"reply", "to", "this", "email">>}
Sub(prompt, phase, routed, chats) ==
  [prompt |-> prompt, phase |-> phase, routed |-> routed, chats |-> chats]

\* the panel once its DOMContentLoaded handler has run, the model configured
PanelInit ==
  /\ chatDisabled = FALSE
  /\ \E ready \in BOOLEAN :
       /\ buttons = ButtonsFor(AvailableActions(ready))
       /\ queries = IF ready THEN <<>> ELSE <<1>>
  /\ subs = <<>>
  /\ clicks = {}
  /\ nTabEvents = 0

\* tabs.onActivated / onUpdated: updateQuickActions up to its sendMessage
TabEvent ==
  /\ nTabEvents < MaxTabEvents
  /\ nTabEvents' = nTabEvents + 1
  /\ queries' = Append(queries, 0)
  /\ UNCHANGED <<cvars, xvars, chatDisabled, buttons, subs, clicks>>

\* updateQuickActions from the response on: retry, or replace the buttons
AvailableActionsReply(i, ready) ==
  /\ i \in 1..Len(queries)
  /\ LET availableActions == AvailableActions(ready) IN
       IF availableActions = {} /\ queries[i] < 3
       THEN /\ queries' = [queries EXCEPT ![i] = @ + 1]
            /\ buttons' = buttons
       ELSE /\ queries' = RemoveAt(queries, i)
            /\ buttons' = Detach(buttons) \o ButtonsFor(availableActions)
  /\ UNCHANGED <<cvars, xvars, chatDisabled, subs, clicks, nTabEvents>>

setChatDisabled(isDisabled) == chatDisabled' = isDisabled

\* form.onsubmit up to the is_action_command message
SubmitForm(prompt) ==
  /\ ~chatDisabled
  /\ Len(subs) < MaxSubmits
  /\ prompt # NoText
  /\ setChatDisabled(TRUE)
  /\ subs' = Append(subs, Sub(prompt, "checking", FALSE, 0))
  /\ UNCHANGED <<cvars, xvars, buttons, queries, clicks, nTabEvents>>

\* the answer to is_action_command (or its failure): execute_action or chat
IsActionReply(i, answered) ==
  /\ i \in 1..Len(subs)
  /\ subs[i].phase = "checking"
  /\ subs' = [subs EXCEPT ![i] =
               IF answered /\ looksLikeActionCommand(@.prompt)
               THEN [@ EXCEPT !.phase = "executing", !.routed = TRUE]
               ELSE [@ EXCEPT !.phase = "chatting", !.chats = @ + 1]]
  /\ UNCHANGED <<cvars, xvars, chatDisabled, buttons, queries, clicks, nTabEvents>>

\* the answer to execute_action: show it and re-enable; on a failure the
\* catch lets the handler go on to the regular chat
ActionReply(i, answered) ==
  /\ i \in 1..Len(subs)
  /\ subs[i].phase = "executing"
  /\ IF answered
     THEN /\ subs' = [subs EXCEPT ![i].phase = "finished"]
          /\ setChatDisabled(FALSE)
     ELSE /\ subs' = [subs EXCEPT ![i].phase = "chatting", ![i].chats = @ + 1]
          /\ chatDisabled' = chatDisabled
  /\ UNCHANGED <<cvars, xvars, buttons, queries, clicks, nTabEvents>>

\* BackgroundAPI.chat has answered or failed: re-enable chat
ChatReply(i) ==
  /\ i \in 1..Len(subs)
  /\ subs[i].phase = "chatting"
  /\ subs' = [subs EXCEPT ![i].phase = "finished"]
  /\ setChatDisabled(FALSE)
  /\ UNCHANGED <<cvars, xvars, buttons, queries, clicks, nTabEvents>>

\* click on a quick-action button, up to its execute_action message
ClickQuickAction(b) ==
  /\ b \in 1..Len(buttons)
  /\ buttons[b].attached
  /\ ~buttons[b].disabled
  /\ setChatDisabled(TRUE)
  /\ buttons' = [buttons EXCEPT ![b].disabled = TRUE]
  /\ clicks' = clicks \cup {b}
  /\ UNCHANGED <<cvars, xvars, queries, subs, nTabEvents>>

\* the answer to the button's execute_action, or its failure
QuickActionReply(b) ==
  /\ b \in clicks
  /\ buttons' = [buttons EXCEPT ![b].disabled = FALSE]
  /\ setChatDisabled(FALSE)
  /\ clicks' = clicks \ {b}
  /\ UNCHANGED <<cvars, xvars, queries, subs, nTabEvents>>

\* chat submissions and action executions awaiting their answer
InFlight ==
  Cardinality({i \in 1..Len(subs) : subs[i].phase # "finished"}) + Cardinality(clicks)

\* ------------------------------------------------------------ specifications
\* ------------------------------------------------------ generateFullSummary
MaxTextLen == 5
MaxChunkSize == 3

\* a text is the sequence of its characters, each named by its position
Texts == {[i \in 1..n |-> i] : n \in 0..MaxTextLen}

RECURSIVE chunkText(_, _)
chunkText(text, maxLength) ==
  IF text = <<>> THEN <<>>
  ELSE <<SubSeq(text, 1, Min({maxLength, Len(text)}))>>
         \o chunkText(SubSeq(text, maxLength + 1, Len(text)), maxLength)

ChatCall(kind, text) == [kind |-> kind, text |-> text]
NoSummary == [kind |-> "none", of |-> <<>>]
\* chunkSummaries.join: the text of the combine call
Joined(summaries) == [i \in 1..Len(summaries) |-> summaries[i].of]

SummaryIdle ==
  /\ fullText = <<>>
  /\ chunkSize = 1
  /\ chunks = <<>>
  /\ chunkIdx = 0
  /\ chunkSummaries = <<>>
  /\ calls = <<>>
  /\ sumPc = "idle"
  /\ summary = NoSummary

\* getModelConfig, chunkText
ChunkFullText ==
  /\ sumPc = "start"
  /\ chunks' = chunkText(fullText, chunkSize)
  /\ chunkIdx' = 1
  /\ sumPc' = "loop"
  /\ UNCHANGED <<cvars, pvars, evars, bvars, zvars, fullText, chunkSize, chunkSummaries, calls, summary>>

\* the loop sends the chat call of the next chunk
SummarizeChunk ==
  /\ sumPc = "loop"
  /\ chunkIdx <= Len(chunks)
  /\ calls' = Append(calls, ChatCall("chunk", chunks[chunkIdx]))
  /\ sumPc' = "chunk-call"
  /\ UNCHANGED <<cvars, pvars, evars, bvars, zvars, fullText, chunkSize, chunks, chunkIdx,
                 chunkSummaries, summary>>

\* the call returns a summary, returns nothing, or throws
ChunkSummarized(outcome) ==
  /\ sumPc = "chunk-call"
  /\ chunkSummaries' =
       CASE outcome = "summary" ->
              Append(chunkSummaries, [kind |-> "summary", of |-> chunks[chunkIdx]])
         [] outcome = "error" ->
              Append(chunkSummaries, [kind |-> "error", of |-> chunks[chunkIdx]])
         [] OTHER -> chunkSummaries
  /\ chunkIdx' = chunkIdx + 1
  /\ sumPc' = "loop"
  /\ UNCHANGED <<cvars, pvars, evars, bvars, zvars, fullText, chunkSize, chunks, calls, summary>>

\* (variant: combine whenever there is a summary)
needsCombineAny(summaries) == Len(summaries) > 0

\* "if (chunkSummaries.length > 1)"
needsCombine(summaries) == Len(summaries) > 1

\* after the loop: the combine call, or the single summary
CombineOrReturn ==
  /\ sumPc = "loop"
  /\ chunkIdx > Len(chunks)
  /\ IF needsCombine(chunkSummaries)
     THEN /\ calls' = Append(calls, ChatCall("combine", Joined(chunkSummaries)))
          /\ sumPc' = "combine-call"
          /\ summary' = summary
     ELSE /\ calls' = calls
          /\ sumPc' = "done"
          /\ summary' = IF chunkSummaries = <<>>
                        THEN [kind |-> "Could not generate a summary.", of |-> <<>>]
                        ELSE chunkSummaries[1]
  /\ UNCHANGED <<cvars, pvars, evars, bvars, zvars, fullText, chunkSize, chunks, chunkIdx, chunkSummaries>>

\* the combine call returns, or throws and the joined summaries are returned
Combined(ok) ==
  /\ sumPc = "combine-call"
  /\ summary' = [kind |-> IF ok THEN "combined" ELSE "joined", of |-> Joined(chunkSummaries)]
  /\ sumPc' = "done"
  /\ UNCHANGED <<cvars, pvars, evars, bvars, zvars, fullText, chunkSize, chunks, chunkIdx, chunkSummaries,
                 calls>>

\* ------------------------------------------------------------ background worker
MaxRequests == 1
MaxRestarts == 1

ModelIds == {"lmstudio", "claude"}
\* the order in which the providers are registered and listed
ProviderOrder == <<"lmstudio", "claude">>
\* a stored selection may name a provider that is no longer registered
StoredIds == ModelIds \cup {"removed"}
\* getModelSpecificConfigFields: the fields marked required
RequiredFields(m) ==
  IF m = "lmstudio" THEN {"baseUrl", "modelName"}
  ELSE IF m = "claude" THEN {"apiKey", "modelName"}
  ELSE {}
\* a config is known by the fields that hold a truthy value
Configs == {{}, {"modelName"}, {"baseUrl", "modelName"}, {"apiKey", "modelName"}}
NoConfigs == [m \in StoredIds |-> {}]
StoredConfigs == {NoConfigs, [m \in StoredIds |-> RequiredFields(m)]}

validateConfig(m, config) ==
  [valid |-> RequiredFields(m) \ config = {}, errors |-> RequiredFields(m) \ config]

\* this.currentConfig[this.currentModelId] || {}
getCurrentConfig(id, configs) == IF id \in DOMAIN configs THEN configs[id] ELSE {}

\* (variant: chat without the validation of the configuration)
chatErrorUnvalidated(id, registered, configs) ==
  IF id = None THEN "No model selected"
  ELSE IF id \notin registered THEN "Model not found"
  ELSE None

\* ModelRegistry.chat up to the provider call: the error it throws, or None
chatError(id, registered, configs) ==
  IF id = None THEN "No model selected"
  ELSE IF id \notin registered THEN "Model not found"
  ELSE IF ~validateConfig(id, getCurrentConfig(id, configs)).valid THEN "Invalid configuration"
  ELSE None

\* setCurrentModel: the selection changes only to a registered model
setCurrentModel(id, registered, current) == IF id \in registered THEN id ELSE current

\* models[0] of the list the worker answers
FirstModel(listed) ==
  ProviderOrder[Min({i \in 1..Len(ProviderOrder) : ProviderOrder[i] \in listed})]

\* (variant: the panel sets the default model whenever it opens)
needsDefaultAlways(current, listed) == TRUE

\* populateModelDropdown: the stored selection is not among the listed models
needsDefault(current, listed) == ~(current # {} /\ current \subseteq listed)

\* (variant: the retry loop ends without an answer)
givesUpSilently(left) == FALSE

\* get_available_actions: the attempt that failed was the last one
givesUp(left) == left = 0

Request(action, cause) ==
  [action |-> action, modelId |-> None, config |-> {}, actionKey |-> None,
   command |-> FALSE, cause |-> cause]
NoReq == Request("none", "none")
Payload(kind, ok, data) == [kind |-> kind, ok |-> ok, data |-> data]
NoResponse == Payload("none", FALSE, {})
Write(key, cause, before) == [key |-> key, cause |-> cause, before |-> before]

others == <<cvars, pvars, evars, svars, zvars>>

WorkerIdle ==
  /\ models = {}
  /\ modelRegistryReady = FALSE
  /\ currentModelId = None
  /\ currentConfig = NoConfigs
  /\ store = [selectedModel |-> None, modelConfigs |-> NoConfigs]
  /\ writes = <<>>
  /\ req = NoReq /\ bpc = "idle" /\ responses = 0 /\ response = NoResponse
  /\ retries = 0 /\ fetches = 0
  /\ treq = NoReq /\ tpc = "idle" /\ tresponses = 0 /\ tresponse = NoResponse
  /\ ppc = "closed" /\ listRetries = 0 /\ nRequests = 0

\* the idle service worker is stopped and started again by the next message:
\* the script runs anew, registers the providers and issues the storage get
WorkerRestart ==
  /\ bpc \in {"idle", "done"}
  /\ tpc \in {"idle", "done"}
  /\ nRestarts < MaxRestarts
  /\ nRestarts' = nRestarts + 1
  /\ modelRegistryReady' = FALSE
  /\ currentModelId' = None
  /\ currentConfig' = NoConfigs
  /\ pendingGet' = store
  /\ req' = NoReq
  /\ bpc' = "idle"
  /\ UNCHANGED <<cvars, pvars, evars, svars, qvars, ovars, tvars, models, store, writes, responses,
                 response, retries, fetches, tabvars, mvars>>

\* initializeModelRegistry: the storage get completes, then the ready flag
LoadConfigsFromStorage ==
  /\ ~modelRegistryReady
  /\ currentConfig' = pendingGet.modelConfigs
  /\ currentModelId' = IF pendingGet.selectedModel # None THEN pendingGet.selectedModel
                       ELSE currentModelId
  /\ modelRegistryReady' = TRUE
  /\ UNCHANGED <<others, models, store, writes, msgvars, tabvars, mvars>>

\* chrome.runtime.sendMessage from the side panel
Send(r) ==
  /\ bpc \in {"idle", "done"}
  /\ tpc \in {"idle", "done"}
  /\ req' = r
  /\ bpc' = "received"
  /\ responses' = 0
  /\ response' = NoResponse
  /\ retries' = 0
  /\ fetches' = 0

Serving(verb) == bpc = "received" /\ req.action = verb
Respond(payload) == responses' = responses + 1 /\ response' = payload

CheckReady ==
  /\ Serving("check_ready")
  /\ Respond(Payload("ready", modelRegistryReady, {}))
  /\ bpc' = "done"
  /\ UNCHANGED <<others, regvars, req, retries, fetches, tabvars, mvars>>

GetModelList ==
  /\ Serving("get_model_list")
  /\ Respond(IF ~modelRegistryReady THEN Payload("error", FALSE, {})
             ELSE Payload("models", TRUE, models))
  /\ bpc' = "done"
  /\ UNCHANGED <<others, regvars, req, retries, fetches, tabvars, mvars>>

GetCurrentModel ==
  /\ Serving("get_current_model")
  /\ Respond(Payload("modelId", TRUE, IF currentModelId = None THEN {} ELSE {currentModelId}))
  /\ bpc' = "done"
  /\ UNCHANGED <<others, regvars, req, retries, fetches, tabvars, mvars>>

\* setCurrentModel, saveCurrentModelToStorage, sendResponse
SetCurrentModel ==
  /\ Serving("set_current_model")
  /\ currentModelId' = setCurrentModel(req.modelId, models, currentModelId)
  /\ store' = [store EXCEPT !.selectedModel = currentModelId']
  /\ writes' = Append(writes, Write("selectedModel", req.cause, currentModelId))
  /\ Respond(Payload("success", TRUE, {}))
  /\ bpc' = "done"
  /\ UNCHANGED <<others, models, modelRegistryReady, currentConfig, req, retries, fetches,
                 tabvars, mvars>>

GetModelConfig ==
  /\ Serving("get_model_config")
  /\ Respond(Payload("config", TRUE,
                     getCurrentConfig(IF req.modelId # None THEN req.modelId
                                      ELSE currentModelId, currentConfig)))
  /\ bpc' = "done"
  /\ UNCHANGED <<others, regvars, req, retries, fetches, tabvars, mvars>>

GetConfigFields ==
  /\ Serving("get_config_fields")
  /\ Respond(IF req.modelId \in models
             THEN Payload("fields", TRUE, RequiredFields(req.modelId))
             ELSE Payload("error", FALSE, {}))
  /\ bpc' = "done"
  /\ UNCHANGED <<others, regvars, req, retries, fetches, tabvars, mvars>>

\* setConfig, saveConfigsToStorage, sendResponse
SaveModelConfig ==
  /\ Serving("save_model_config")
  /\ currentConfig' = [currentConfig EXCEPT ![req.modelId] = req.config]
  /\ store' = [store EXCEPT !.modelConfigs = currentConfig']
  /\ writes' = Append(writes, Write("modelConfigs", req.cause, currentModelId))
  /\ Respond(Payload("success", TRUE, {}))
  /\ bpc' = "done"
  /\ UNCHANGED <<others, models, modelRegistryReady, currentModelId, req, retries, fetches,
                 tabvars, mvars>>

ValidateConfig ==
  /\ Serving("validate_config")
  /\ Respond(IF req.modelId \in models
             THEN Payload("validation", validateConfig(req.modelId, req.config).valid,
                          validateConfig(req.modelId, req.config).errors)
             ELSE Payload("error", FALSE, {}))
  /\ bpc' = "done"
  /\ UNCHANGED <<others, regvars, req, retries, fetches, tabvars, mvars>>

\* the chat handler up to the provider's request, or to the error it answers
ServeChat ==
  /\ Serving("chat")
  /\ IF chatError(currentModelId, models, currentConfig) # None
     THEN /\ Respond(Payload("error", FALSE,
                             {chatError(currentModelId, models, currentConfig)}))
          /\ bpc' = "done"
          /\ UNCHANGED fetches
     ELSE /\ fetches' = fetches + 1
          /\ bpc' = "chat-call"
          /\ UNCHANGED <<responses, response>>
  /\ UNCHANGED <<others, regvars, req, retries, tabvars, mvars>>

\* the provider's request returns, or fails and the handler catches the error
ProviderReplies(ok) ==
  /\ bpc = "chat-call"
  /\ Respond(IF ok THEN Payload("chat", TRUE, {})
             ELSE Payload("error", FALSE, {"Could not connect"}))
  /\ bpc' = "done"
  /\ UNCHANGED <<others, regvars, req, retries, fetches, tabvars, mvars>>

Relayed == {"get_available_actions", "execute_action"}

\* chrome.tabs.query of get_available_actions and execute_action
QueryTab(outcome) ==
  /\ bpc = "received"
  /\ req.action \in Relayed
  /\ IF outcome = "tab"
     THEN /\ bpc' = "attempt"
          /\ retries' = IF req.action = "get_available_actions" THEN 3 ELSE retries
          /\ UNCHANGED <<responses, response>>
     ELSE /\ Respond(IF req.action = "get_available_actions"
                     THEN Payload("actions", TRUE, {})
                     ELSE Payload("error", FALSE, {outcome}))
          /\ bpc' = "done"
          /\ UNCHANGED retries
  /\ UNCHANGED <<others, regvars, req, fetches, tabvars, mvars>>

\* chrome.tabs.sendMessage to the content script
SendToTab ==
  /\ bpc = "attempt"
  /\ req.action = "get_available_actions" => retries > 0
  /\ bpc' = "wait-tab"
  /\ treq' = req
  /\ tpc' = "sent"
  /\ tresponses' = 0
  /\ tresponse' = NoResponse
  /\ UNCHANGED <<others, regvars, req, responses, response, retries, fetches, mvars>>

\* no content script receives the message: sendMessage rejects
TabRejects ==
  /\ bpc = "wait-tab"
  /\ tpc = "sent"
  /\ tpc' = "idle"
  /\ treq' = NoReq
  /\ IF req.action = "execute_action"
     THEN /\ Respond(Payload("error", FALSE, {"Receiving end does not exist"}))
          /\ bpc' = "done"
          /\ UNCHANGED retries
     ELSE /\ retries' = retries - 1
          /\ IF givesUp(retries')
             THEN /\ Respond(Payload("actions", TRUE, {}))
                  /\ bpc' = "done"
             ELSE /\ UNCHANGED <<responses, response>>
                  /\ bpc' = IF retries' > 0 THEN "attempt" ELSE "done"
  /\ UNCHANGED <<others, regvars, req, fetches, tresponses, tresponse, mvars>>

\* the content script has answered: the worker passes the answer on
TabAnswers ==
  /\ bpc = "wait-tab"
  /\ tpc = "done"
  /\ Respond(IF req.action = "get_available_actions"
             THEN Payload("actions", TRUE, tresponse.data)
             ELSE tresponse)
  /\ bpc' = "done"
  /\ UNCHANGED <<others, regvars, req, retries, fetches, tabvars, mvars>>

\* ---- the content script's handlers
TServing(verb) == tpc = "sent" /\ treq.action = verb
TRespond(payload) == tresponses' = tresponses + 1 /\ tresponse' = payload

ContentPing ==
  /\ TServing("ping")
  /\ TRespond(Payload("pong", TRUE, {}))
  /\ tpc' = "done"
  /\ UNCHANGED <<others, regvars, msgvars, treq, mvars>>

PageTextOutcomes ==
  {"pdf-no-url", "pdf", "pdf-failed", "workspace", "workspace-failed", "readability",
   "fallback", "throws"}

ContentGetPageText(outcome) ==
  /\ TServing("get_page_text")
  /\ TRespond(Payload("text", outcome \notin {"pdf-no-url", "pdf-failed", "workspace-failed"},
                      {outcome}))
  /\ tpc' = "done"
  /\ UNCHANGED <<others, regvars, msgvars, treq, mvars>>

ContentIsActionCommand(hasRegistry, isAction) ==
  /\ TServing("is_action_command")
  /\ TRespond(Payload("isAction", hasRegistry /\ isAction, {}))
  /\ tpc' = "done"
  /\ UNCHANGED <<others, regvars, msgvars, treq, mvars>>

ContentGetAvailableActions(available, throws) ==
  /\ TServing("get_available_actions")
  /\ TRespond(Payload("actions", TRUE, IF throws THEN {} ELSE available))
  /\ tpc' = "done"
  /\ UNCHANGED <<others, regvars, msgvars, treq, mvars>>

\* execute_action up to action.run or handleCommand
ContentExecuteAction(hasRegistry) ==
  /\ TServing("execute_action")
  /\ IF ~hasRegistry
     THEN TRespond(Payload("error", FALSE, {"Action system not initialized"})) /\ tpc' = "done"
     ELSE IF treq.actionKey = "missing"
     THEN TRespond(Payload("error", FALSE, {"Action not found"})) /\ tpc' = "done"
     ELSE IF treq.actionKey = None /\ ~treq.command
     THEN TRespond(Payload("error", FALSE, {"Missing actionKey or command"})) /\ tpc' = "done"
     ELSE tpc' = "running" /\ UNCHANGED <<tresponses, tresponse>>
  /\ UNCHANGED <<others, regvars, msgvars, treq, mvars>>

\* the action has run: its result is answered, or what it threw
ContentRunReturns(outcome) ==
  /\ tpc = "running"
  /\ TRespond(IF outcome = "throws" THEN Payload("error", FALSE, {"thrown"})
              ELSE Payload("result", outcome = "success", {}))
  /\ tpc' = "done"
  /\ UNCHANGED <<others, regvars, msgvars, treq, mvars>>

\* ---- the side panel
Answered(verb) == bpc = "done" /\ req.action = verb /\ responses >= 1
\* the panel is not in the middle of populateModelDropdown
Settled(p) == p \in {"ready", "nomodels", "failed"}

\* populateModelDropdown asks for the model list
OpenPanel ==
  /\ ppc \in {"closed", "repopulate"}
  /\ Send(Request("get_model_list", "open"))
  /\ ppc' = "list"
  /\ UNCHANGED <<others, regvars, tabvars, listRetries, nRequests>>

ListAnswered ==
  /\ ppc = "list"
  /\ Answered("get_model_list")
  /\ IF response.kind = "error"
     THEN ppc' = "retry" /\ listRetries' = 5 /\ UNCHANGED msgvars
     ELSE IF response.data = {}
     THEN ppc' = "nomodels" /\ UNCHANGED <<listRetries, msgvars>>
     ELSE /\ Send(Request("get_current_model", "open"))
          /\ ppc' = "current"
          /\ UNCHANGED listRetries
  /\ UNCHANGED <<others, regvars, tabvars, nRequests>>

RetryList ==
  /\ ppc = "retry"
  /\ listRetries > 0
  /\ Send(Request("get_model_list", "retry"))
  /\ ppc' = "relist"
  /\ UNCHANGED <<others, regvars, tabvars, listRetries, nRequests>>

RelistAnswered ==
  /\ ppc = "relist"
  /\ Answered("get_model_list")
  /\ IF response.kind = "models" /\ response.data # {}
     THEN ppc' = "repopulate" /\ UNCHANGED listRetries
     ELSE /\ listRetries' = listRetries - 1
          /\ ppc' = IF listRetries' = 0 THEN "failed" ELSE "retry"
  /\ UNCHANGED <<others, regvars, msgvars, tabvars, nRequests>>

\* the initial selection: the stored model, or the first model as the default
CurrentAnswered ==
  /\ ppc = "current"
  /\ Answered("get_current_model")
  /\ IF needsDefault(response.data, models)
     THEN /\ Send([Request("set_current_model", "default")
                     EXCEPT !.modelId = FirstModel(models)])
          /\ ppc' = "default"
     ELSE ppc' = "ready" /\ UNCHANGED msgvars
  /\ UNCHANGED <<others, regvars, tabvars, listRetries, nRequests>>

DefaultAnswered ==
  /\ ppc = "default"
  /\ Answered("set_current_model")
  /\ ppc' = "ready"
  /\ UNCHANGED <<others, regvars, msgvars, tabvars, listRetries, nRequests>>

\* the change event of the model dropdown
ChangeModel(id) ==
  /\ ppc = "ready"
  /\ id \in models
  /\ nRequests < MaxRequests
  /\ Send([Request("set_current_model", "change") EXCEPT !.modelId = id])
  /\ nRequests' = nRequests + 1
  /\ UNCHANGED <<others, regvars, tabvars, ppc, listRetries>>

\* ConfigurationUI.save: validate, then save
SaveClicked(config) ==
  /\ ppc = "ready"
  /\ currentModelId # None
  /\ nRequests < MaxRequests
  /\ Send([Request("validate_config", "save")
             EXCEPT !.modelId = currentModelId, !.config = config])
  /\ ppc' = "validating"
  /\ nRequests' = nRequests + 1
  /\ UNCHANGED <<others, regvars, tabvars, listRetries>>

ValidateAnswered ==
  /\ ppc = "validating"
  /\ Answered("validate_config")
  /\ IF response.ok
     THEN Send([req EXCEPT !.action = "save_model_config"]) /\ ppc' = "saving"
     ELSE ppc' = "ready" /\ UNCHANGED msgvars
  /\ UNCHANGED <<others, regvars, tabvars, listRetries, nRequests>>

SaveAnswered ==
  /\ ppc = "saving"
  /\ Answered("save_model_config")
  /\ ppc' = "ready"
  /\ UNCHANGED <<others, regvars, msgvars, tabvars, listRetries, nRequests>>

\* the other messages the panel sends to the worker
PanelRequests ==
  {Request("chat", "submit"), Request("check_ready", "load"),
   Request("get_available_actions", "tab")}
  \cup {[Request("get_model_config", "status") EXCEPT !.modelId = m] : m \in {None, "claude"}}
  \cup {[Request("get_config_fields", "show") EXCEPT !.modelId = m] : m \in {"claude", "removed"}}
  \cup {[Request("execute_action", "button") EXCEPT !.actionKey = k] :
          k \in {"summarize_page", "missing"}}

PanelRequest(r) ==
  /\ Settled(ppc)
  /\ nRequests < MaxRequests
  /\ Send(r)
  /\ nRequests' = nRequests + 1
  /\ UNCHANGED <<others, regvars, tabvars, ppc, listRetries>>

\* the messages the panel sends to the tab itself
TabRequests ==
  {Request("ping", "load"), Request("get_page_text", "summarize"),
   Request("is_action_command", "submit"), Request("execute_action", "submit"),
   [Request("execute_action", "submit") EXCEPT !.command = TRUE]}

TabRequest(r) ==
  /\ Settled(ppc)
  /\ nRequests < MaxRequests
  /\ bpc \in {"idle", "done"}
  /\ tpc \in {"idle", "done"}
  /\ treq' = r
  /\ tpc' = "sent"
  /\ tresponses' = 0
  /\ tresponse' = NoResponse
  /\ nRequests' = nRequests + 1
  /\ UNCHANGED <<others, regvars, msgvars, ppc, listRetries>>

\* ------------------------------------------ updateQuickActions, several tabs
\* the page a tab shows
Pages ==
  {pg \in [host : Hosts, inEmailView : BOOLEAN] : pg.inEmailView => IncludesMail(pg.host)}

NotReported == [got |-> FALSE, actions |-> {}]
Reported(keys) == [got |-> TRUE, actions |-> keys]

notTabs == <<registry, nCommands, pc, cmd, intent, runs, chatMsgs, replies, content,
             overlay, promise, confirmation, execArgs, dom, plan, stepIdx, results,
             result, evars, svars, bvars, qvars, gvars, ovars>>

\* tabs.onActivated, or onUpdated with a new URL of the active tab: the
\* active tab now shows page pg; updateQuickActions up to its sendMessage
TabActivated(pg) ==
  /\ nTabEvents < MaxTabEvents
  /\ nTabEvents' = nTabEvents + 1
  /\ host' = pg.host
  /\ inEmailView' = pg.inEmailView
  /\ queries' = Append(queries, 0)
  /\ reported' = Append(reported, NotReported)
  /\ UNCHANGED <<notTabs, chatDisabled, buttons, subs, clicks>>

\* the background's get_available_actions handler: it asks the content
\* script of the tab that is active now and has its list, or no action when
\* the content script does not answer
GetAvailableActionsHandled(i, ready) ==
  /\ i \in 1..Len(queries)
  /\ ~reported[i].got
  /\ reported' = [reported EXCEPT ![i] = Reported(AvailableActions(ready))]
  /\ UNCHANGED <<notTabs, host, inEmailView, pvars>>

\* updateQuickActions from the response on: retry, or replace the buttons
QuickActionsAnswered(i) ==
  /\ i \in 1..Len(queries)
  /\ reported[i].got
  /\ LET availableActions == reported[i].actions IN
       IF availableActions = {} /\ queries[i] < 3
       THEN /\ queries' = [queries EXCEPT ![i] = @ + 1]
            /\ reported' = [reported EXCEPT ![i] = NotReported]
            /\ buttons' = buttons
       ELSE /\ queries' = RemoveAt(queries, i)
            /\ reported' = RemoveAt(reported, i)
            /\ buttons' = Detach(buttons) \o ButtonsFor(availableActions)
  /\ UNCHANGED <<notTabs, host, inEmailView, chatDisabled, subs, clicks, nTabEvents>>

\* the keys of the quick-action buttons shown
AttachedKeys == {buttons[b].key : b \in {c \in 1..Len(buttons) : buttons[c].attached}}

\* ------------------------------------------- ConfirmationOverlay, called again
MaxShows == 3

PendingPromise ==
  [state |-> "pending", approved |-> FALSE, content |-> "null", cause |-> "none"]
\* the value a promise is resolved with, and the control that caused it
Decision(isApproved, value, cause) ==
  [state |-> "resolved", approved |-> isApproved, content |-> value, cause |-> cause]

OverlayIdle ==
  /\ thisOverlay = 0
  /\ thisResolve = 0
  /\ docBody = {}
  /\ keydownHandlers = {}
  /\ shown = <<>>
  /\ promises = <<>>

notOverlay == <<cvars, pvars, evars, svars, bvars, qvars, gvars, tvars>>

\* show: a new promise whose resolve replaces this.resolve, createOverlay
\* (a new element replaces this.overlay, attachEventListeners), appendChild
OverlayShow(editable) ==
  /\ Len(shown) < MaxShows
  /\ LET el == Len(shown) + 1
     IN /\ shown' = Append(shown, [editable |-> editable])
        /\ promises' = Append(promises, PendingPromise)
        /\ thisResolve' = el
        /\ thisOverlay' = el
        /\ docBody' = docBody \cup {el}
        /\ keydownHandlers' = keydownHandlers \cup {el}
  /\ UNCHANGED notOverlay

\* this.resolve(value): a promise already resolved keeps its value
resolveWith(ps, p, value) ==
  IF p # 0 /\ ps[p] = PendingPromise THEN [ps EXCEPT ![p] = value] ELSE ps

\* close(), then this.resolve(value)
CloseAndResolve(value) ==
  /\ IF thisOverlay # 0 /\ thisOverlay \in docBody
     THEN /\ keydownHandlers' = keydownHandlers \ {thisOverlay}
          /\ docBody' = docBody \ {thisOverlay}
          /\ thisOverlay' = 0
     ELSE UNCHANGED <<thisOverlay, docBody, keydownHandlers>>
  /\ promises' = resolveWith(promises, thisResolve, value)
  /\ UNCHANGED <<thisResolve, shown>>

\* a click on the approve button of an attached element: approve(), which
\* throws on this.overlay.querySelector when this.overlay is null
OverlayApprove(el) ==
  /\ el \in docBody
  /\ thisOverlay # 0
  /\ CloseAndResolve(Decision(TRUE, IF shown[thisOverlay].editable THEN "value" ELSE "null",
                              "approve-button"))
  /\ UNCHANGED notOverlay

\* a click on Cancel, the close button or the backdrop of an attached
\* element: cancel()
OverlayCancel(el, cause) ==
  /\ el \in docBody
  /\ CloseAndResolve(Decision(FALSE, "null", cause))
  /\ UNCHANGED notOverlay

\* the Escape key: every listener left on the document calls cancel(); the
\* calls after the first find this.overlay null and the promise resolved
OverlayEscape ==
  /\ keydownHandlers # {}
  /\ CloseAndResolve(Decision(FALSE, "null", "escape"))
  /\ UNCHANGED notOverlay

\* ------------------------------------------------------------ readiness poll
MaxNow == 62
MaxPolling == 2
MaxLoads == 2

\* setInterval(..., 500) and setTimeout(..., 30000), in milliseconds
PollEvery == 500
StopAfter == 30000

\* (variant: the polling is never stopped)
stopDueNever(t) == FALSE

\* the setTimeout comes due when 30 s have passed
stopDue(t) == t * PollEvery = StopAfter

PollIdle ==
  /\ loadPc = "closed"
  /\ now = 0
  /\ pollInterval = "none"
  /\ stopTimer = FALSE
  /\ due = {}
  /\ polling = 0
  /\ sent = 0
  /\ answer = "none"
  /\ loads = 0

LaterIdle ==
  /\ PollIdle
  /\ OverlayIdle
  /\ reported = <<>>
  /\ pendingGet = [selectedModel |-> None, modelConfigs |-> NoConfigs]
  /\ nRestarts = 0

worker == <<cvars, pvars, evars, svars, bvars, gvars, ovars, tvars>>

\* the panel page loads and sends its first check_ready
PanelLoads ==
  /\ loadPc \in {"closed", "reloading"}
  /\ loads < MaxLoads
  /\ loads' = loads + 1
  /\ loadPc' = "checking"
  /\ now' = 0
  /\ sent' = 0
  /\ answer' = "none"
  /\ UNCHANGED <<worker, pollInterval, stopTimer, due, polling>>

\* the first check_ready is answered, or sendMessage throws
FirstCheck(throws) ==
  /\ loadPc = "checking"
  /\ IF ~throws /\ modelRegistryReady
     THEN /\ loadPc' = "ready"
          /\ UNCHANGED <<pollInterval, stopTimer>>
     ELSE /\ loadPc' = "polling"
          /\ pollInterval' = "set"
          /\ stopTimer' = TRUE
  /\ UNCHANGED <<worker, now, due, polling, sent, answer, loads>>

\* half a second passes; every timer that came due has run
Tick ==
  /\ loadPc \in {"polling", "timed-out"}
  /\ due = {}
  /\ polling < MaxPolling
  /\ now < MaxNow
  /\ pollInterval = "set" \/ polling > 0
  /\ now' = now + 1
  /\ due' = {t \in {"poll"} : pollInterval = "set"}
            \cup {t \in {"stop"} : stopTimer /\ stopDue(now')}
  /\ UNCHANGED <<worker, loadPc, pollInterval, stopTimer, polling, sent, answer, loads>>

\* the interval's callback sends check_ready
PollFires ==
  /\ "poll" \in due
  /\ due' = due \ {"poll"}
  /\ polling' = polling + 1
  /\ sent' = sent + 1
  /\ UNCHANGED <<worker, loadPc, now, pollInterval, stopTimer, answer, loads>>

\* a poll is answered: ready reloads the page, anything else is dropped
PollAnswered(kind) ==
  /\ polling > 0
  /\ kind = "ready" => modelRegistryReady
  /\ answer' = kind
  /\ IF kind = "ready"
     THEN /\ pollInterval' = "none"
          /\ stopTimer' = FALSE
          /\ due' = {}
          /\ polling' = 0
          /\ loadPc' = "reloading"
     ELSE /\ polling' = polling - 1
          /\ UNCHANGED <<pollInterval, stopTimer, due, loadPc>>
  /\ UNCHANGED <<worker, now, sent, loads>>

\* the setTimeout callback: clearInterval and the timed-out message
StopFires ==
  /\ "stop" \in due
  /\ due' = {}
  /\ pollInterval' = "cleared"
  /\ stopTimer' = FALSE
  /\ loadPc' = "timed-out"
  /\ UNCHANGED <<worker, now, polling, sent, answer, loads>>

\* the components that have not run yet
ExtraInit ==
  /\ emailData = NoEmail
  /\ SummaryIdle
  /\ WorkerIdle
  /\ LaterIdle

Init == ContentInit /\ PanelInit /\ ExtraInit

ChatReplies == TextReplies \cup ComposeReplies \cup PlanReplies
AllEdits == TextEdits("ComposeAction") \cup TextEdits("ReplyAction")

\* the content script answering the panel's requests
Next ==
  \/ \E c \in Commands : HandleCommand(c)
  \/ \E reply \in LLMIntentReplies : ParseWithLLM(reply)
  \/ Dispatch
  \/ \E key \in {"reply", "summarize", "summarize_doc", "summarize_page"} :
       ExecuteActionKey(key)
  \/ RunStart
  \/ \E reply \in ChatReplies : Generate(reply)
  \/ \E t \in AllEdits : EditContent(t)
  \/ ClickApprove
  \/ \E cause \in CancelCauses : Cancel(cause)
  \/ ExecuteOpen
  \/ ExecuteFill
  \/ ClipboardWrite
  \/ ExecuteStep
  \/ Finish

Spec == Init /\ [][Next]_vars

\* the same, with calls that throw
NextFaults ==
  \/ Next
  \/ CanExecuteThrows
  \/ RunThrows

SpecFaults == Init /\ [][NextFaults]_vars

\* IntentParser.parse on every input of the vocabulary
ParseInit ==
  /\ ContentInit
  /\ PanelInit
  /\ ExtraInit
  /\ queries = <<>>
  /\ host = MailHost
  /\ inEmailView

ParseNext ==
  \/ \E c \in TokenSeqs(MaxTokens) : HandleCommand(c)
  \/ \E reply \in LLMIntentReplies : ParseWithLLM(reply)

SpecParse == ParseInit /\ [][ParseNext]_vars

\* ReplyAction.execute and ComposeAction.execute called with any options
CallExecute(key, text, options) ==
  /\ pc = "idle"
  /\ nCommands < MaxCommands
  /\ registry' = initialize(registry, host)
  /\ key \in DOMAIN initialize(registry, host).actions
  /\ runs' = <<Run(key, NoText, NoParams)>>
  /\ cmd' = NoText
  /\ intent' = NoIntent
  /\ chatMsgs' = <<>>
  /\ replies' = <<>>
  /\ content' = EmptyText
  /\ overlay' = NoOverlay
  /\ promise' = "none"
  /\ confirmation' = NoConfirmation
  /\ execArgs' = Args(text, options)
  /\ dom' = <<>>
  /\ plan' = NoPlan
  /\ stepIdx' = 0
  /\ results' = <<>>
  /\ result' = Pending
  /\ pc' = "open"
  /\ emailData' = NoEmail
  /\ UNCHANGED <<pvars, yvars, host, inEmailView, nCommands>>

ExecNext ==
  \/ \E key \in {"reply", "compose"}, text \in {GenText, EditedText}, options \in Options :
       CallExecute(key, text, options)
  \/ ExecuteOpen
  \/ ExecuteFill
  \/ Finish

ExecSpec == Init /\ [][ExecNext]_vars

\* the content script's get_available_actions listener: initialize, then
\* answer with the quick actions of the page
GetAvailableActions ==
  /\ pc = "idle"
  /\ nCommands < MaxCommands
  /\ registry' = initialize(registry, host)
  /\ nCommands' = nCommands + 1
  /\ result' = [actions |->
                  {[id |-> registry'.actions[k].id, name |-> registry'.actions[k].class,
                    key |-> k] : k \in getAvailableActions(registry')}]
  /\ UNCHANGED <<pvars, xvars, host, inEmailView, pc, cmd, intent, runs, chatMsgs, replies,
                 content, overlay, promise, confirmation, execArgs, dom, plan, stepIdx,
                 results>>

\* ActionRegistry.initialize on every hostname
RegistryInit ==
  /\ ContentInitOn(HostNames)
  /\ PanelInit
  /\ ExtraInit
  /\ queries = <<>>

RegistryNext == GetAvailableActions

RegistrySpec == RegistryInit /\ [][RegistryNext]_vars

\* ComposeAction.run on every email the model may generate
ComposeInit ==
  /\ Init
  /\ host = MailHost
  /\ queries = <<>>

ComposeNext ==
  \/ HandleCommand(<<"write", "email", "to", Addr>>)
  \/ HandleCommand(<<"write", "email">>)
  \/ Dispatch
  \/ RunStart
  \/ \E reply \in EmailReplies : Generate(reply)
  \/ \E t \in TextEdits("ComposeAction") : EditContent(t)
  \/ ClickApprove
  \/ \E cause \in CancelCauses : Cancel(cause)
  \/ ExecuteOpen
  \/ ExecuteFill
  \/ Finish

ComposeSpec == ComposeInit /\ [][ComposeNext]_vars

\* generateFullSummary on every text and chunk size
SummaryInit ==
  /\ ContentInit
  /\ PanelInit
  /\ emailData = NoEmail
  /\ host = MailHost /\ inEmailView /\ queries = <<>>
  /\ fullText \in Texts
  /\ chunkSize \in 1..MaxChunkSize
  /\ chunks = <<>>
  /\ chunkIdx = 0
  /\ chunkSummaries = <<>>
  /\ calls = <<>>
  /\ sumPc = "start"
  /\ summary = NoSummary
  /\ WorkerIdle
  /\ LaterIdle

SummaryNext ==
  \/ ChunkFullText
  \/ SummarizeChunk
  \/ \E outcome \in {"summary", "empty", "error"} : ChunkSummarized(outcome)
  \/ CombineOrReturn
  \/ \E ok \in BOOLEAN : Combined(ok)

SummarySpec == SummaryInit /\ [][SummaryNext]_vars

\* the side panel
PanelNext ==
  \/ TabEvent
  \/ \E i \in 1..(MaxTabEvents + 1), ready \in BOOLEAN : AvailableActionsReply(i, ready)
  \/ \E prompt \in PanelPrompts : SubmitForm(prompt)
  \/ \E i \in 1..MaxSubmits, answered \in BOOLEAN : IsActionReply(i, answered)
  \/ \E i \in 1..MaxSubmits, answered \in BOOLEAN : ActionReply(i, answered)
  \/ \E i \in 1..MaxSubmits : ChatReply(i)
  \/ \E b \in 1..Len(buttons) : ClickQuickAction(b)
  \/ \E b \in clicks : QuickActionReply(b)

PanelSpec == Init /\ [][PanelNext]_vars

\* the background worker serving the side panel, with the tab's content script
WorkerInit ==
  /\ ContentInit
  /\ PanelInit
  /\ emailData = NoEmail
  /\ SummaryIdle
  /\ PollIdle
  /\ OverlayIdle
  /\ reported = <<>>
  /\ host = MailHost /\ inEmailView /\ queries = <<>>
  /\ models \in {{}, {"claude"}, ModelIds}
  /\ modelRegistryReady = FALSE
  /\ currentModelId = None
  /\ currentConfig = NoConfigs
  /\ store \in [selectedModel : StoredIds \cup {None}, modelConfigs : StoredConfigs]
  /\ writes = <<>>
  /\ req = NoReq /\ bpc = "idle" /\ responses = 0 /\ response = NoResponse
  /\ retries = 0 /\ fetches = 0
  /\ treq = NoReq /\ tpc = "idle" /\ tresponses = 0 /\ tresponse = NoResponse
  /\ ppc = "closed" /\ listRetries = 0 /\ nRequests = 0
  /\ pendingGet = store
  /\ nRestarts = 0

WorkerHandlers ==
  \/ LoadConfigsFromStorage
  \/ CheckReady
  \/ GetModelList
  \/ GetCurrentModel
  \/ SetCurrentModel
  \/ GetModelConfig
  \/ GetConfigFields
  \/ SaveModelConfig
  \/ ValidateConfig
  \/ ServeChat
  \/ \E ok \in BOOLEAN : ProviderReplies(ok)
  \/ \E outcome \in {"tab", "no-tab", "throws"} : QueryTab(outcome)
  \/ SendToTab
  \/ TabRejects
  \/ TabAnswers

ContentHandlers ==
  \/ ContentPing
  \/ \E outcome \in PageTextOutcomes : ContentGetPageText(outcome)
  \/ \E hasRegistry, isAction \in BOOLEAN : ContentIsActionCommand(hasRegistry, isAction)
  \/ \E available \in {{}, {"summarize_page"}}, throws \in BOOLEAN :
       ContentGetAvailableActions(available, throws)
  \/ \E hasRegistry \in BOOLEAN : ContentExecuteAction(hasRegistry)
  \/ \E outcome \in {"success", "error", "throws"} : ContentRunReturns(outcome)

PanelActs ==
  \/ OpenPanel
  \/ ListAnswered
  \/ RetryList
  \/ RelistAnswered
  \/ CurrentAnswered
  \/ DefaultAnswered
  \/ \E id \in ModelIds : ChangeModel(id)
  \/ \E config \in Configs : SaveClicked(config)
  \/ ValidateAnswered
  \/ SaveAnswered
  \/ \E r \in PanelRequests : PanelRequest(r)
  \/ \E r \in TabRequests : TabRequest(r)

WorkerNext == WorkerHandlers \/ ContentHandlers \/ PanelActs

WorkerSpec == WorkerInit /\ [][WorkerNext]_vars

\* every handler that has started runs on; the user may stop acting
WorkerFairSpec == WorkerSpec /\ WF_vars(WorkerHandlers) /\ WF_vars(ContentHandlers)

\* the worker stopped when idle and started again while the panel stays open
RestartNext == WorkerNext \/ WorkerRestart

RestartSpec == WorkerInit /\ [][RestartNext]_vars

\* the side panel following the active tab
TabsInit == Init /\ queries = <<>>

TabsNext ==
  \/ \E pg \in Pages : TabActivated(pg)
  \/ \E i \in 1..MaxTabEvents, ready \in BOOLEAN : GetAvailableActionsHandled(i, ready)
  \/ \E i \in 1..MaxTabEvents : QuickActionsAnswered(i)

TabsSpec == TabsInit /\ [][TabsNext]_vars

\* an action's ConfirmationOverlay shown by overlapping runs of the action
OverlayNext ==
  \/ \E editable \in BOOLEAN : OverlayShow(editable)
  \/ \E el \in 1..MaxShows : OverlayApprove(el)
  \/ \E el \in 1..MaxShows, cause \in CancelButtons : OverlayCancel(el, cause)
  \/ OverlayEscape

OverlaySpec == ParseInit /\ [][OverlayNext]_vars

\* the side panel opening while the worker may still be starting
PollInit == WorkerInit /\ models = ModelIds /\ store.selectedModel = None

PollNext ==
  \/ LoadConfigsFromStorage
  \/ PanelLoads
  \/ \E throws \in BOOLEAN : FirstCheck(throws)
  \/ Tick
  \/ PollFires
  \/ \E kind \in {"ready", "not-ready", "error"} : PollAnswered(kind)
  \/ StopFires

PollSpec == PollInit /\ [][PollNext]_vars

\* ------------------------------------------------------------ properties
\* C1: a mutating step (execute, the clipboard write, executeAction) has been
\* invoked only if the overlay's promise resolved with approved true; when it
\* resolved with approved false the run returns its cancelled error and no
\* mutating step has been invoked.
ConfirmationGates ==
  /\ dom # <<>> => (promise = "resolved" /\ confirmation.approved)
  /\ (promise = "resolved" /\ ~confirmation.approved) =>
       /\ dom = <<>>
       /\ pc \in {"done", "idle"}
       /\ result = ActionResultError(CancelledMessage(CurrentClass))

ApprovedReplyExecuted ==
  /\ pc = "done"
  /\ CurrentClass = "ReplyAction"
  /\ confirmation.approved
  /\ Len(dom) = 3
  /\ result.success

\* C2: handleCommand never rejects: whatever the parser, the model, the
\* overlay or a provider does, a finished command request holds a resolved
\* ActionResult whose success is a boolean.
HandleCommandNeverThrows ==
  intent # NoIntent =>
    /\ result.state # "rejected"
    /\ pc = "done" => (result.state = "resolved" /\ result.success \in BOOLEAN)

CaughtProviderFailure ==
  /\ pc = "done"
  /\ intent # NoIntent
  /\ runs = <<>>
  /\ result.state = "resolved"
  /\ result.message = "Failed to execute command"

\* C3: execute of ReplyAction and ComposeAction never clicks Send, whatever
\* the options, autoSend included: it only opens the draft and fills it.
ExecuteNeverSends ==
  \A i \in 1..Len(dom) :
    /\ dom[i].op \in {"click", "fill"}
    /\ dom[i].op = "click" => dom[i].arg \in {"Reply", "Compose"}

AutoSendDrafted ==
  /\ pc = "done"
  /\ execArgs.options.autoSend
  /\ result.success
  /\ Len(dom) = 2

\* C4: a command request invokes run on exactly one action: GenericAction
\* with the raw text when the intent's action is not registered, is unknown,
\* has confidence below 0.5 or cannot execute; otherwise the looked-up action
\* with the text and the intent's parameters.
ExpectedRun ==
  IF \/ intent.action \notin DOMAIN registry.actions
     \/ intent.action = "unknown"
     \/ intent.confidence < 50
     \/ ~canExecute(intent.action)
  THEN Run("generic", cmd, NoParams)
  ELSE Run(intent.action, cmd, intent.parameters)

ExactlyOneRun ==
  (intent # NoIntent /\ pc \notin {"parse", "dispatch"}) => runs = <<ExpectedRun>>

GenericBecauseCannotExecute ==
  /\ pc = "run"
  /\ intent.action = "reply"
  /\ intent.method = "pattern"
  /\ "reply" \in DOMAIN registry.actions
  /\ ~canExecute("reply")
  /\ runs = <<Run("generic", cmd, NoParams)>>

\* C5: at most one chat submission or action execution issued from the side
\* panel is in flight.
OneRequestInFlight == InFlight <= 1

\* C6 (as stated): the overlay resolves with approved false only through the
\* Cancel button or the Escape key, and only before the mutating step.
CancelOnlyByButtonOrEscape ==
  (promise = "resolved" /\ ~confirmation.approved) =>
    (confirmation.cause \in {"cancel-button", "escape"} /\ dom = <<>>)

\* C6 (amended): the overlay resolves with approved false only through the
\* Cancel button, the close button, a click on the backdrop or the Escape
\* key, and only before the mutating step: once that step has been invoked
\* the overlay is detached and its key listener removed.
CancelOnlyByOverlayControls ==
  /\ (promise = "resolved" /\ ~confirmation.approved) =>
       (confirmation.cause \in CancelCauses /\ dom = <<>>)
  /\ dom # <<>> => (~overlay.attached /\ ~overlay.keydown)

CancelledByBackdrop ==
  /\ pc = "done"
  /\ promise = "resolved"
  /\ confirmation.cause = "backdrop"
  /\ dom = <<>>

\* C7: "reply saying <text>" on a Gmail email view parses to the reply intent
\* with parameters.message = <text> and is run by ReplyAction.
ReplySayingIsReply ==
  (/\ Len(cmd) >= 3
   /\ SubSeq(cmd, 1, 2) = <<"reply", "saying">>
   /\ IncludesMail(host) /\ inEmailView
   /\ pc = "run") =>
    /\ intent.action = "reply"
    /\ intent.parameters.message = SubSeq(cmd, 3, Len(cmd))
    /\ CurrentClass = "ReplyAction"

\* C8 (as stated): an input matching a regex of action A of the pattern table
\* parses to A with confidence 0.9 and method pattern, without a model message.
EveryMatchWins ==
  pc = "dispatch" =>
    \A k \in 1..Len(PatternTable) :
      patterns(PatternTable[k], cmd) =>
        /\ intent.action = PatternTable[k]
        /\ intent.confidence = 90
        /\ intent.method = "pattern"
        /\ chatMsgs = <<>>

\* C8 (amended): an input matching a regex of the pattern table parses to the
\* first action, in table order, one of whose regexes matches, with confidence
\* 0.9 and method pattern, without a model message.
FirstMatchWins ==
  pc = "dispatch" =>
    \A k \in 1..Len(PatternTable) :
      (/\ patterns(PatternTable[k], cmd)
       /\ \A j \in 1..(k - 1) : ~patterns(PatternTable[j], cmd)) =>
        /\ intent.action = PatternTable[k]
        /\ intent.confidence = 90
        /\ intent.method = "pattern"
        /\ chatMsgs = <<>>

ForwardParsedAsCompose ==
  /\ pc = "dispatch"
  /\ patterns("forward", cmd)
  /\ patterns("compose", cmd)
  /\ intent.action = "compose"
  /\ intent.method = "pattern"

\* C9: parse never throws: when the model call fails, answers without success
\* or without parsable JSON, the intent is unknown with confidence 0 and
\* method failed, and handleCommand runs GenericAction on the raw text.
FailedParseFallsBack ==
  (/\ replies # <<>>
   /\ chatMsgs[1] = "intent"
   /\ replies[1] \in ChatFailures) =>
    /\ intent = Intent("unknown", 0, NoParams, "failed")
    /\ result.state # "rejected"
    /\ pc # "dispatch" => runs = <<Run("generic", cmd, NoParams)>>

UnparsableAnswerRunsGeneric ==
  /\ pc = "run"
  /\ chatMsgs = <<"intent">>
  /\ replies = <<"bad-json">>
  /\ CurrentClass = "GenericAction"

\* C10: once initialize has completed, calling it again changes nothing: the
\* same keys, the same instances, no construction.
InitializeOnce ==
  [][registry.initialized => registry' = registry]_vars

InitializedAgain ==
  /\ registry.initialized
  /\ nCommands >= 1
  /\ pc \in {"parse", "dispatch", "run"}

\* C11: after initialize the fallback provider and the generic action are
\* registered on every page, the Gmail provider only on mail.google.com, the
\* GoogleDocs provider only on docs.google.com, and never both of them.
ProvidersByHostname ==
  registry.initialized =>
    /\ "fallback" \in DOMAIN registry.providers
    /\ "generic" \in DOMAIN registry.actions
    /\ "gmail" \in DOMAIN registry.providers => host = MailHost
    /\ "googledocs" \in DOMAIN registry.providers => host = DocsHost
    /\ ~("gmail" \in DOMAIN registry.providers /\ "googledocs" \in DOMAIN registry.providers)

\* C13: parseEditedContent applied to the unedited preview of an email
\* returns the email's to, subject and body (an empty to or subject, shown as
\* its placeholder, comes back empty).
PreviewRoundTrip ==
  (/\ promise = "resolved"
   /\ confirmation.approved
   /\ CurrentClass = "ComposeAction"
   /\ confirmation.content = previewContent(emailData)) =>
    execArgs.content = emailData

\* C12 (as stated): a text no longer than chunkSize makes exactly one chat
\* call and no combine call; a text of N > 1 chunks makes N chunk calls in
\* chunk order followed by exactly one combine call.
ChunkCalls == [i \in 1..Len(chunks) |-> ChatCall("chunk", chunks[i])]

OneCallOrChunksThenCombine ==
  sumPc = "done" =>
    IF Len(fullText) <= chunkSize
    THEN calls = <<ChatCall("chunk", fullText)>>
    ELSE /\ Len(calls) = Len(chunks) + 1
         /\ SubSeq(calls, 1, Len(chunks)) = ChunkCalls
         /\ calls[Len(calls)].kind = "combine"

\* C12 (amended): the chunks are the consecutive pieces of chunkSize
\* characters of the text (none for an empty text); one chat call is made per
\* chunk, in chunk order, each after the previous one was answered; exactly
\* one combine call follows when more than one chunk left a summary or an
\* error note, and none otherwise.
RECURSIVE Concat(_)
Concat(ss) == IF ss = <<>> THEN <<>> ELSE Head(ss) \o Concat(Tail(ss))

ChunkCallsThenCombineIfSeveral ==
  /\ sumPc \notin {"idle", "start"} =>
       /\ Concat(chunks) = fullText
       /\ \A i \in 1..Len(chunks) :
            /\ chunks[i] # <<>>
            /\ Len(chunks[i]) <= chunkSize
            /\ i < Len(chunks) => Len(chunks[i]) = chunkSize
  /\ sumPc \in {"loop", "chunk-call"} =>
       /\ calls = SubSeq(ChunkCalls, 1, Len(calls))
       /\ Len(calls) = IF sumPc = "loop" THEN chunkIdx - 1 ELSE chunkIdx
  /\ sumPc \in {"combine-call", "done"} =>
       calls = IF Len(chunkSummaries) > 1
               THEN Append(ChunkCalls, ChatCall("combine", Joined(chunkSummaries)))
               ELSE ChunkCalls

TwoChunksNoCombine ==
  /\ sumPc = "done"
  /\ Len(chunks) = 2
  /\ Len(chunkSummaries) = 1
  /\ calls = ChunkCalls

\* C14: for an editable confirmation (Reply, Compose, WriteText) the content
\* applied on approval is the content of the overlay's text area at that
\* moment, edits included, also an edit that empties the text.
EditedContentApplied ==
  (/\ promise = "resolved"
   /\ confirmation.approved
   /\ CurrentClass \in {"ReplyAction", "ComposeAction", "WriteTextAction"}) =>
    /\ confirmation.content = overlay.text
    /\ execArgs.content = IF CurrentClass = "ComposeAction"
                          THEN parseEditedContent(overlay.text)
                          ELSE overlay.text
    /\ \A i \in 1..Len(dom) :
         dom[i].op \in {"fill", "clipboard"} => dom[i].arg = execArgs.content

\* C15: executeAction attempts every step of a feasible plan in plan order;
\* a step whose element is not found adds a "Failed" line and the later steps
\* are still attempted: one result line per step, in plan order.
LineFits(line, i) ==
  IF plan.steps[i] \in {"click", "fill", "type", "navigate"}
  THEN line.mark \in {"ok", "failed"} /\ line.step = i
  ELSE line.mark = "unknown" /\ line.reason = plan.steps[i]

EveryStepAttempted ==
  /\ pc = "steps" =>
       /\ Len(results) = Min({stepIdx - 1, Len(plan.steps)})
       /\ \A i \in 1..Len(results) : LineFits(results[i], i)
       /\ \A i \in 1..Len(dom) : dom[i].op # "call" => dom[i].arg <= Len(results)
  /\ (pc = "done" /\ runs # <<>> /\ CurrentClass = "GenericAction" /\ dom # <<>>) =>
       /\ result.success
       /\ Len(result.lines) = Len(plan.steps)
       /\ \A i \in 1..Len(plan.steps) : LineFits(result.lines[i], i)

FailedThenAttempted ==
  /\ pc = "done"
  /\ Len(plan.steps) = 2
  /\ Len(result.lines) = 2
  /\ result.lines[1].mark = "failed"
  /\ result.lines[2].mark = "ok"

\* C16: when a fill step does not find its element and the copy of the value
\* to the clipboard succeeds, the outcome reported for the step says that the
\* content was copied to the clipboard, not the plain not-found error.
ClipboardFallbackReported ==
  \A k \in 1..Len(results) :
    (\E i \in 1..Len(dom) : dom[i] = Dom("clipboard", k)) =>
      results[k].reason = CopiedToClipboard

\* C20: an input that matches no pattern but contains a keyword of the
\* fallback list parses to generic with confidence 0.7 and method
\* keyword-fallback, and no message is sent to the model.
KeywordFallback ==
  (/\ pc = "dispatch"
   /\ \A k \in 1..Len(PatternTable) : ~patterns(PatternTable[k], cmd)
   /\ \E i \in 1..Len(cmd) :
        \/ cmd[i] \in actionKeywords
        \/ \E ph \in actionKeyPhrases : i < Len(cmd) /\ <<cmd[i], cmd[i + 1]>> = ph) =>
    /\ intent = Intent("generic", 70, NoParams, "keyword-fallback")
    /\ chatMsgs = <<>>
    /\ replies = <<>>

ReplySayingIsKeywordFallback ==
  /\ pc = "dispatch"
  /\ cmd = <<"reply", "saying", "hello">>
  /\ intent.method = "keyword-fallback"
  /\ chatMsgs = <<>>

\* C17: ModelRegistry.chat makes the provider's request exactly when a model
\* is selected, it is registered and every required field of its
\* configuration is present; otherwise the chat is answered with the error
\* and no provider request is made. The request is made once and is never
\* repeated, whatever the provider answers.
ChatForwardsOnce ==
  [][
    /\ (bpc = "received" /\ req.action = "chat" /\ bpc' # bpc) =>
         LET forwards ==
               /\ currentModelId # None
               /\ currentModelId \in models
               /\ RequiredFields(currentModelId) \subseteq currentConfig[currentModelId]
         IN /\ fetches' = (IF forwards THEN 1 ELSE 0)
            /\ forwards => (bpc' = "chat-call" /\ responses' = 0)
            /\ ~forwards => (bpc' = "done" /\ responses' = 1 /\ ~response'.ok)
    /\ (bpc = "chat-call" /\ bpc' # bpc) =>
         (fetches' = fetches /\ bpc' = "done" /\ responses' = 1)
  ]_vars

ProviderFailedAfterOneCall ==
  /\ req.action = "chat"
  /\ bpc = "done"
  /\ fetches = 1
  /\ ~response.ok
  /\ responses = 1

WrittenOnlyOnUserAction ==
  \A i \in DOMAIN writes : writes[i].cause \in {"change", "save"}

\* C19: the store is written on the user's change of the model, on the save
\* of a valid configuration, and when the panel opens while the current model
\* is unset or not registered: the panel then selects the first model and the
\* worker writes selectedModel. Nothing else writes, start-up included.
WrittenOnUserActionOrDefault ==
  /\ \A i \in DOMAIN writes :
       /\ writes[i].cause \in {"change", "save", "default"}
       /\ writes[i].cause = "default" =>
            /\ writes[i].key = "selectedModel"
            /\ writes[i].before \notin models
            /\ \A j \in DOMAIN writes : writes[j].cause = "default" => j = i
       /\ writes[i].cause = "change" => writes[i].key = "selectedModel"
       /\ writes[i].cause = "save" => writes[i].key = "modelConfigs"
  /\ ~modelRegistryReady => writes = <<>>

DefaultModelWritten ==
  /\ ppc = "ready"
  /\ Len(writes) = 1
  /\ writes[1].cause = "default"
  /\ store.selectedModel = FirstModel(models)

ChatServedWithStoredSelection ==
  (/\ req.action = "chat"
   /\ bpc = "done"
   /\ store.selectedModel \in models
   /\ RequiredFields(store.selectedModel) \subseteq store.modelConfigs[store.selectedModel]) =>
    response.data \cap {"No model selected", "Invalid configuration"} = {}

\* C24: the completion of the start-up loadConfigsFromStorage leaves in
\* effect the selection or the configuration that an acknowledged
\* set_current_model or save_model_config has set.
LoadKeepsAcknowledged ==
  [][
    (~modelRegistryReady /\ modelRegistryReady' /\ bpc = "done" /\ response.ok) =>
      /\ (req.action = "set_current_model" /\ req.modelId \in models) =>
           currentModelId' = req.modelId
      /\ req.action = "save_model_config" => currentConfig'[req.modelId] = req.config
  ]_vars

\* C29: currentModelId is null or the id of a registered model.
SelectionRegisteredOrNull == currentModelId = None \/ currentModelId \in models

\* C30: every input that matchPatterns maps to an action is accepted by
\* looksLikeActionCommand.
PatternInputLooksLikeAction ==
  matchPatterns(cmd) # None => looksLikeActionCommand(cmd)

\* C28: the result of executeAction on a plan with steps has success = true
\* only if a step of the plan completed without error: a plan in which every
\* step failed yields success = false.
SuccessNeedsCompletedStep ==
  (pc = "done" /\ result.success /\ result.message = "steps" /\ plan.steps # <<>>) =>
    \E i \in 1..Len(result.lines) : result.lines[i].mark = "ok"

\* C25: once a decision has closed the overlay, every promise that show
\* returned is resolved and no overlay element is left in the document, also
\* when show was called again before the first call was resolved.
ClosedOverlayLeavesNothing ==
  (shown # <<>> /\ thisOverlay = 0) =>
    /\ docBody = {}
    /\ \A p \in 1..Len(promises) : promises[p] # PendingPromise

\* C27: a prompt routed to the action system (is_action_command answered
\* isAction true) is never also sent to the model as a regular chat message.
RoutedNeverChats ==
  \A i \in 1..Len(subs) : subs[i].routed => subs[i].chats = 0

\* C26: once every get_available_actions response and retry has completed,
\* the quick-action buttons shown are those reported for the active tab: its
\* list, or none when its content script did not answer.
QuiescentButtonsOfActiveTab ==
  queries = <<>> => AttachedKeys \in {{}, AvailableActions(TRUE)}

====
